---------------------------- MODULE Spec2Model ----------------------------
(***************************************************************************)
(* Consensus arithmetic of the electronero node: proof-of-work check,      *)
(* block reward, difficulty retargeting and the checkpoint registry.       *)
(*                                                                         *)
(* TLC's integers are 32 bits wide, the program's are 64 (and 128 for      *)
(* intermediates).  A uint64_t is therefore modelled at its full width as  *)
(* a natural number written in base 256: a sequence of bytes, least        *)
(* significant first, without trailing zero bytes (<<>> is 0).  The        *)
(* operators B* are exact arithmetic on such numbers; the program's        *)
(* wrap-around is the explicit reduction U64.                              *)
(***************************************************************************)
EXTENDS Integers, Sequences, FiniteSets, TLC

VARIABLES
  m_points,    \* checkpoints::m_points, the registry: height -> hash
  first_hash,  \* history: the hash first stored at each height
  cp,          \* the last checkpoint operation, its arguments and result
  pow,         \* a check_hash call: inputs, position, result
  rw,          \* a get_block_reward call: inputs, position, result
  df           \* a next_difficulty* call: inputs, position, result

vars == <<m_points, first_hash, cp, pow, rw, df>>

--------------------------------------------------------------------------
(* Natural numbers in base 256 *)

Base == 16 * 16

\* a sequence or a function written out, element by element
Digits(x) == x \o <<>>
Written(f) == f @@ <<>>

\* an operand is computed before the step that takes it, as in the source
Computed(x) == x = x

Max(a, b) == IF a >= b THEN a ELSE b
Min(a, b) == IF a <= b THEN a ELSE b

\* x without its trailing zero digits
NormLen(x) ==
  IF \A k \in 1..Len(x) : x[k] = 0 THEN 0
  ELSE CHOOSE k \in 1..Len(x) : x[k] # 0 /\ \A j \in (k + 1)..Len(x) : x[j] = 0

Norm(x) == LET y == Digits(x) IN SubSeq(y, 1, NormLen(y))

Digit(x, i) == IF i >= 1 /\ i <= Len(x) THEN x[i] ELSE 0

RECURSIVE FromInt(_)
FromInt(n) == IF n = 0 THEN <<>> ELSE <<n % Base>> \o FromInt(n \div Base)

RECURSIVE ToInt(_)
ToInt(x) == IF x = <<>> THEN 0 ELSE x[1] + Base * ToInt(Tail(x))

\* x + y: position k receives a carry iff some lower position j overflows
\* and every position between j and k is full
BAdd(x, y) ==
  LET n == Max(Len(x), Len(y)) + 1
      s == Digits([k \in 1..n |-> Digit(x, k) + Digit(y, k)])
      cin(k) == \E j \in 1..(k - 1) :
                  s[j] >= Base /\ \A i \in (j + 1)..(k - 1) : s[i] = Base - 1
  IN Norm([k \in 1..n |-> (s[k] + (IF cin(k) THEN 1 ELSE 0)) % Base])

BLess(x, y) ==
  \E k \in 1..Max(Len(x), Len(y)) :
    Digit(x, k) < Digit(y, k)
    /\ \A i \in (k + 1)..Max(Len(x), Len(y)) : Digit(x, i) = Digit(y, i)

BLeq(x, y) == ~BLess(y, x)

\* x - y, for x >= y: position k lends iff some lower position j is short
\* and every position between j and k is level
BSub(x, y) ==
  LET n == Max(Len(x), Len(y))
      t == Digits([k \in 1..n |-> Digit(x, k) - Digit(y, k)])
      bin(k) == \E j \in 1..(k - 1) :
                  t[j] < 0 /\ \A i \in (j + 1)..(k - 1) : t[i] = 0
  IN Norm([k \in 1..n |-> (t[k] - (IF bin(k) THEN 1 ELSE 0) + Base) % Base])

\* x * Base^n
ShiftDigits(x, n) == IF x = <<>> THEN <<>> ELSE [k \in 1..n |-> 0] \o x

\* x * d for a single digit d
BMulSmall(x, d) ==
  BAdd(Digits([k \in 1..Len(x) |-> (x[k] * d) % Base]),
       ShiftDigits(Norm([k \in 1..Len(x) |-> (x[k] * d) \div Base]), 1))

RECURSIVE MulFrom(_, _, _)
MulFrom(x, y, i) ==
  IF i > Len(y) THEN <<>>
  ELSE BAdd(ShiftDigits(BMulSmall(x, y[i]), i - 1), MulFrom(x, y, i + 1))

BMul(x, y) == IF Len(x) >= Len(y) THEN MulFrom(x, y, 1) ELSE MulFrom(y, x, 1)

\* the largest q in lo..hi with d * q <= r
RECURSIVE QDigit(_, _, _, _)
QDigit(r, d, lo, hi) ==
  IF lo >= hi THEN lo
  ELSE LET mid == (lo + hi + 1) \div 2
       IN IF BLeq(BMulSmall(d, mid), r) THEN QDigit(r, d, mid, hi)
          ELSE QDigit(r, d, lo, mid - 1)

\* bounds on r \div d from the leading digits, for r < d * Base and d of
\* two digits or more
QLow(r, d) ==
  LET n == Len(d)
  IN ((Digit(r, n + 1) * Base + Digit(r, n)) * Base + Digit(r, n - 1))
       \div (d[n] * Base + d[n - 1] + 1)

QHigh(r, d) ==
  LET n == Len(d)
  IN Min(Base - 1,
         ((Digit(r, n + 1) * Base + Digit(r, n)) * Base + Digit(r, n - 1))
           \div (d[n] * Base + d[n - 1]))

\* long division, most significant digit first: <<quotient, remainder>>
RECURSIVE DivStep(_, _, _, _, _)
DivStep(x, d, i, q, r) ==
  IF i = 0 THEN <<Norm(q), r>>
  ELSE LET r1 == Norm(<<x[i]>> \o r)
       IN IF BLess(r1, d) THEN DivStep(x, d, i - 1, <<0>> \o q, r1)
          ELSE LET qd == QDigit(r1, d, QLow(r1, d), QHigh(r1, d))
               IN DivStep(x, d, i - 1, <<qd>> \o q, BSub(r1, BMulSmall(d, qd)))

\* the same by a divisor of one or two digits, on machine integers
RECURSIVE ShortDivStep(_, _, _, _, _)
ShortDivStep(x, d, i, q, r) ==
  IF i = 0 \/ r < 0 THEN <<Norm(q), FromInt(r)>>
  ELSE ShortDivStep(x, d, i - 1, <<(r * Base + x[i]) \div d>> \o q,
                    (r * Base + x[i]) % d)

DivMod(x, d) ==
  IF Len(d) <= 2 THEN ShortDivStep(x, ToInt(d), Len(x), <<>>, 0)
  ELSE DivStep(x, d, Len(x), <<>>, <<>>)

BDiv(x, d) == DivMod(x, d)[1]
BMod(x, d) == DivMod(x, d)[2]

RECURSIVE Pow2Int(_)
Pow2Int(k) == IF k = 0 THEN 1 ELSE 2 * Pow2Int(k - 1)

\* 2^k
Pow2(k) == ShiftDigits(FromInt(Pow2Int(k % 8)), k \div 8)

\* floor(x / 2^k)
BShr(x, k) ==
  LET n == k \div 8
      b == k % 8
  IN Norm([i \in 1..Max(Len(x) - n, 0) |->
            (Digit(x, i + n) \div Pow2Int(b))
            + (Digit(x, i + n + 1) % Pow2Int(b)) * Pow2Int(8 - b)])

BShl(x, k) ==
  LET n == k \div 8
      b == k % 8
  IN Norm([i \in 1..(Len(x) + n + 1) |->
            IF i <= n THEN 0
            ELSE (Digit(x, i - n) % Pow2Int(8 - b)) * Pow2Int(b)
                 + (Digit(x, i - n - 1) \div Pow2Int(8 - b))])

LowBits(x, k) ==
  LET n == k \div 8
      b == k % 8
  IN Norm([i \in 1..(n + 1) |->
            IF i <= n THEN Digit(x, i) ELSE Digit(x, i) % Pow2Int(b)])

\* a number written in decimal groups of three digits, most significant
\* first: Dec(<<1, 260, 0, 0, 0>>) is 1_260_000_000_000
RECURSIVE DecFrom(_, _, _)
DecFrom(g, i, acc) ==
  IF i > Len(g) THEN acc
  ELSE IF Len(acc) < 0 THEN <<>>
  ELSE DecFrom(g, i + 1,
         BAdd(BMulSmall(BMulSmall(BMulSmall(acc, 10), 10), 10), FromInt(g[i])))

Dec(g) == DecFrom(g, 1, <<>>)

--------------------------------------------------------------------------
(* uint64_t *)

\* x mod 2^64: what a uint64_t keeps of x
U64(x) == Norm(SubSeq(x, 1, Min(Len(x), 8)))

\* floor(x / 2^64)
Hi64(x) == IF Len(x) <= 8 THEN <<>> ELSE SubSeq(x, 9, Len(x))

U64Max == Digits([k \in 1..8 |-> 255])
U32Max == Digits([k \in 1..4 |-> 255])

\* a + b and a - b on uint64_t
Add64(a, b) == U64(BAdd(a, b))
Sub64(a, b) == IF BLeq(b, a) THEN BSub(a, b) ELSE BSub(BAdd(a, Pow2(64)), b)
Mul64(a, b) == U64(BMul(a, b))

--------------------------------------------------------------------------
(* Values held fixed by the specifications that do not use them *)

NoPoints == [h \in {} |-> <<>>]
IdleCp == [op |-> "none"]
IdlePow == [pc |-> "idle"]
IdleRw == [pc |-> "idle"]
IdleDf == [pc |-> "idle"]

--------------------------------------------------------------------------
(* check_hash: the proof-of-work test *)

\* mul on x86_64: low and high word of the 128-bit product (mul128)
mul_x86_64(a, b) == [low |-> U64(BMul(a, b)), high |-> Hi64(BMul(a, b))]

Lo32(a) == Norm(SubSeq(a, 1, Min(Len(a), 4)))
Hi32(a) == IF Len(a) <= 4 THEN <<>> ELSE SubSeq(a, 5, Len(a))
Shl32(a) == U64(ShiftDigits(a, 4))

\* mul elsewhere: the product assembled from 32-bit halves
mul_portable(a, b) ==
  LET aLow == Lo32(a)
      aHigh == Hi32(a)
      bLow == Lo32(b)
      bHigh == Hi32(b)
      res1 == Mul64(aLow, bLow)
      lowRes1 == Lo32(res1)
      res2 == Add64(Mul64(aHigh, bLow), Hi32(res1))
      highResHigh1 == Hi32(res2)
      highResLow1 == Lo32(res2)
      res3 == Mul64(aLow, bHigh)
      lowRes2 == Lo32(res3)
      res4 == Add64(Mul64(aHigh, bHigh), Hi32(res3))
      highResHigh2 == Hi32(res4)
      highResLow2 == Lo32(res4)
      r1 == Add64(highResLow1, lowRes2)
      r2 == Add64(Add64(highResHigh1, highResLow2), Hi32(r1))
      r3 == Add64(highResHigh2, Hi32(r2))
  IN [low |-> BAdd(Shl32(r1), lowRes1), high |-> BAdd(Lo32(r2), Shl32(r3))]

Builds == {"x86_64", "portable"}

mul(a, b, build) == IF build = "x86_64" THEN mul_x86_64(a, b) ELSE mul_portable(a, b)

cadd(a, b) == BLess(Add64(a, b), a)

cadc_nocarry(a, b, c) == BLess(Add64(a, b), a)

cadc(a, b, c) == BLess(Add64(a, b), a) \/ (c /\ Add64(a, b) = U64Max)

\* swap64le(((const uint64_t *) &hash)[i]): bytes 8i..8i+7, little-endian
Limb(hash, i) == Norm(SubSeq(hash, 8 * i + 1, 8 * i + 8))

check_hash(hash, difficulty, build) ==
  LET m3 == mul(Limb(hash, 3), difficulty, build)
      top == m3.low
  IN IF m3.high # <<>> THEN FALSE
     ELSE LET m0 == mul(Limb(hash, 0), difficulty, build)
              m1 == mul(Limb(hash, 1), difficulty, build)
              carry1 == cadd(m0.high, m1.low)
              m2 == mul(Limb(hash, 2), difficulty, build)
              carry2 == cadc(m1.high, m2.low, carry1)
              carry3 == cadc(m2.high, top, carry2)
          IN ~carry3

\* a 64-bit word as its 8 bytes
Bytes8(x) == Digits([k \in 1..8 |-> Digit(x, k)])

LimbSamples == {<<>>, <<1>>, Pow2(63), U64Max}
DifficultySamples == {<<>>, <<1>>, <<2>>, <<3>>, Pow2(32), U64Max}

HashSamples ==
  { Bytes8(l[1]) \o Bytes8(l[2]) \o Bytes8(l[3]) \o Bytes8(l[4]) :
      l \in LimbSamples \X LimbSamples \X LimbSamples \X LimbSamples }

InitPow ==
  /\ pow \in [pc : {"call"}, hash : HashSamples, difficulty : DifficultySamples,
              build : Builds, ret : {FALSE}]
  /\ m_points = NoPoints
  /\ first_hash = NoPoints
  /\ cp = IdleCp
  /\ rw = IdleRw
  /\ df = IdleDf

check_hash_call ==
  /\ pow.pc = "call"
  /\ pow' = [pow EXCEPT !.pc = "done",
                        !.ret = check_hash(pow.hash, pow.difficulty, pow.build)]
  /\ UNCHANGED <<m_points, first_hash, cp, rw, df>>

NextPow == check_hash_call

SpecPow == InitPow /\ [][NextPow]_vars

\* C1: check_hash(h, D) is true exactly when the integer product of the
\* 256-bit hash (four little-endian 64-bit limbs) and D is below 2^256,
\* on either build of mul; neither the early return on the highest limb
\* nor the carry steps change that.
C1_PowConsistency ==
  pow.pc = "done" =>
    (pow.ret <=> BLess(BMul(Norm(pow.hash), pow.difficulty), Pow2(256)))

\* a rejection decided by the carry chain, the early return not taken
C1_Witness ==
  /\ pow.pc = "done"
  /\ ~pow.ret
  /\ Hi64(BMul(Limb(pow.hash, 3), pow.difficulty)) = <<>>

--------------------------------------------------------------------------
(* The checkpoint registry *)

NetworkTypes == {"MAINNET", "TESTNET", "STAGENET"}

TestnetCheckpoints ==
  <<
    <<0, "48ca7cd3c8de5b6a4d53d2861fbdaedca141553559f9be9520068053cda8430b">>,
    <<1000000, "46b690b710a07ea051bc4a6b6842ac37be691089c0f7758cfeec4d5fc0b4a258">>
  >>

StagenetCheckpoints ==
  <<
    <<0, "76ee3cc98646292206cd3e86f74d88b4dcc1d937088645e9b0cbca84b7ce74eb">>,
    <<10000, "1f8b0ce313f8b9ba9a46108bfd285c45ad7c2176871fd41c3a690d4830ce2fd5">>
  >>

MainnetCheckpoints ==
  <<
    <<1, "4536e1e23ff7179a126a7e61cd9e89ded0e258176f2bc879c999caa155f68cc3">>,
    <<10, "e5aefcb1d575a788ecfb65bb7be3bdd135eb76ccefb38a60d7800e86d25d408e">>,
    <<100, "e3548600cc0e2991af4f36bbf44addd95051748fc09e8cac5f8237fd841132c0">>,
    <<1000, "d7ec8a6329948fee02cdc95b13f286bd69fe9540863a80dfff7fe14940756293">>,
    <<10000, "95dad4575ba43eb0d4ba9b6081d5d52e6a74fc8fe3391d9628f78ddd3b71c965">>,
    <<25000, "7c4062b935413c84e5de8e6c27917f5158ec4e39dd322798dcf4772eb4634772">>,
    <<50000, "1e85615e78d31168a1e7a1c0bf64a607d0adff70d78d3baa7c954adff3cc8c2a">>,
    <<100000, "a7b51ca66b2525903efbd4a32604a7ad5000df4b9da8bdd9cb3062cb014b0cad">>,
    <<150000, "e9b66d3f12f9cedece7d9925721b15f1ec6cb2f6b438b3ddd288237c27ffe20e">>,
    <<179839, "f8631f50ef79b840cba9fe3484764d0c7515ff2884e1f5be2f7298a4d08e88ee">>,
    <<179840, "74958c1b19505ab49babc91dfd14251146256873ae875ac97c26fb2000490e70">>,
    <<179841, "8a793f1aef368e83fa72ac3a236309c06ae7726958120514e0f6d33ff3b24548">>,
    <<180000, "65193d028c4264dc679ee384d654eff59085976231f93b990ad16a5370961803">>,
    <<200000, "9a7853584fbe0d88746d3d7bb6a3efd02ecaa3f0158808fde9f3c8339b3d5d8f">>,
    <<225000, "26b00fd2638340dae0b2a479598dd82c6af489b876e85cdc203f41ad90d83233">>,
    <<230000, "b01bdcc2effb4ccfd9cf41c4412b866b2f13058e759a900cf5d24a308b9a3fcd">>,
    <<307003, "b79cb23dafca9fb36400bc15180b48cfa43d8839c16a4938a99fb11ab024dcdf">>,
    <<307165, "507c9d28562a311833d03970db160ae2b875eefae6e4e5acbe128b8d1d4222ac">>,
    <<307166, "b2723276aa1ffcfbd1058547cb6d0b01307a0560ee15c3c3ca786025d7dad88b">>,
    <<307167, "49d4e1c57eddde66786c12de22efc047f66618fcb7e85b1fcd993f5b5727554e">>,
    <<307168, "ab767ef1d8fcb902b3fc01e63e18f9782865eb3d867df7e8cf619041de4f9aef">>,
    <<307169, "a7719a0532f834a289e6881f04f1666c9e82948f794edc4dd0c8efdcd56e98eb">>,
    <<307170, "55490ffe0a65f5be663307970c9ade18a0f5449cfaa83a97b1912e49f43a3345">>,
    <<307171, "526f407f6e5e8793a3a4bdf4f603d7f2827f58c7d86ae60544dd4e9005ea2c96">>,
    <<307172, "ba1bb40c2834cab4bfdb8d0ff19247724e1cd4204d96df2b82fd713ff48aa27d">>,
    <<307173, "da9f28679928fed5e51644a0f2663233208140e7da30eef9a14d2227fb0dc023">>,
    <<307174, "9b75434375e4fbabc0be2c8d69b37404bd7739417e0c151bdae258b0c2d382dc">>,
    <<307175, "d23037889c2e97f8eec4d9ad0fa26a7bf72f89ed45c04e340c65656f675c3821">>,
    <<308112, "0a8ff6a620824c65a796b75d1bdbeccf8150012e2d4fdc5d6f86ce8b8e8d73fe">>,
    <<309231, "372cdcb2c5b89afb3cd6fa28a6f3b86d4e23c0451cf21f048fbe5305d3dca977">>,
    <<310790, "dc74427bc33b9cb9414986ee6455f3548bf52e7a43091c7cd0be5beeda453571">>,
    <<310791, "798da7aede00a28a6d9a5b924fd31e39ce764b8b3f591386ce8e95965fd8e31c">>,
    <<319000, "d544e7cc7b2ed85703f36eb572b79c0d50a2d8f94baa5246577d28f6a3811bc6">>,
    <<319062, "99436c56256fcd6812b49100c05f78684723f6d8cde16970308ab5db86fdf870">>,
    <<320023, "566cabc0a6745085da3a13e38e5d8b9f87997db9600d0df34168fe33d0d621fd">>,
    <<333685, "59ad2423d2bba213e3939e044acdabed74f654350c4309b104d2c9444b9707e2">>,
    <<333690, "037c51d236cf33d2a58d45b30d8a6f0f59792693bd783be3593984313a4e5a68">>,
    <<333691, "7cec4b3b4ea14ae386264654c29d30ab9718fb999af4d43f41e3cd989ba39dca">>,
    <<333692, "671d71b2083014c9c6e2b1f09551bec417cd001417b1b685705c4e6ec0d6a9d6">>,
    <<333693, "c2c8018a9005e0919e2a2872bca8ea278ef1def8ba865be21365d96ac6a8fc9c">>,
    <<333694, "d719281ca62a65899eda0808a6d87b7406bd1bcd9e2045fbdfc2e4726d9493b5">>,
    <<333695, "c937db6319b8fb86406089773e292ac2423896538e7f4df4bc4be02f60d2d937">>,
    <<333696, "44d1d38dbfd07a1fc41a194baa1952218324ba535b221c02dff1d4b25df9e32c">>,
    <<333697, "f5bf2b1edb09776a81089f36d40cf791d2444d50f47fa7a38035994ecfa7247b">>,
    <<333698, "ad54c31db02630379d29dee36dbc7f4e25c41e1c9e1019350380ff696a2e74a8">>,
    <<333699, "c2577b259a5951a2b4803be7ca1af29a4eb66187d056ba563faec494e30260d8">>,
    <<337235, "ad63ea7d3fb97598612016d73dba7befe5badb4b5ed6aba2cff9f89392674eb8">>,
    <<337239, "8f54ba081eff7b42e0815434ba46155033dead3b4a01fb345b8580e291bc0512">>,
    <<337240, "b64b2e579420d5e3fcc481d401bdf6bc174bbdedb461ac5793c5401ac9f63f61">>,
    <<337282, "67312bc96c5f1bbe68f096af30d221cf0917e945c5afa8344d59983a1568a5e4">>,
    <<337314, "1a6a757ab93b5c18ab489796db602d94f77357cb5eb20c046362b9c96fd93a70">>,
    <<337341, "0bc854f4db94240ae05f390b255dfb6f112b4fd0322297cccd74dcc0f79bd4ac">>,
    <<337344, "1b0829521c151235a930fc425e6684a105c86391d07b621bd262ee4687c11b3a">>,
    <<337364, "615447441bfb46c880eee9a913aec5e257e8b9a07555e32562097ce51afae23e">>,
    <<337385, "0832b54ad07789271f31fedbdb5f9636c4f6083185f7124b541a506dcf7b126e">>,
    <<337397, "919a7fc0191013fba630313f32f51e6049b0f9c789ef0c4c646811889ac6050f">>,
    <<337807, "a901b1ab60c0a9fdb78ae7761d0b40ab5ebd58c95ea5f124f2d3cab3a33fea70">>,
    <<337808, "9207f4095a3b02389cf279871adf897a95f8718a5d967f9c38cd07dc0c4e84da">>,
    <<337809, "5193a1a97f762bdaf0680773d86e19a45d72ccb1a57e5c037adc191696c8b455">>,
    <<337810, "ae7b15ab2edcb9219398d4e9722060b9215cc6fc200f6654c3aba003ca0f27e1">>,
    <<337811, "382edc23e7333b83e17b0672c713d6a7f016c074f4783957eb23f7ca50d4d15e">>,
    <<337812, "3b5c97e6107368b6f519c06647dc0b767be6adfea602c5b782151376382faa27">>,
    <<337813, "026a68d5512df448f0b3ce7cccf7d240bfacff0f6427bcaf5ecd3828a1cfd8a9">>,
    <<337814, "008394ffa0cec8a14e1e61e4fb270fad3e939f8a5e1422da4868ec55132b82e4">>,
    <<337815, "0a53b0661858eee6865de4e22c5a3ba7cbcd0e897bf8b94104a0eeab0a120403">>,
    <<337911, "9b32bb69d76da8f39e82a6f3f0efd9efa2409089c98c6381ccb3caa2f00f076c">>,
    <<337837, "c554c42e87daefab96a67e01693c8a8555fcf8f448cbd391e2ee2f36c7cb9efa">>,
    <<337838, "efd2eb0e38e8160b3f1de9828e94abb6c88d5f4e57c8691656614307b773a5cf">>,
    <<337839, "e8637efe7c3a14236705415355c6208e0bbd12cb5bbab38fa8191905c561c8a7">>,
    <<337840, "0a73fd810b5236492b96d73fba17752dea20865e3a4fe6d4bc0cc85e7f3ccaeb">>,
    <<338120, "460f07a66c0a7d6fd2379d546a3ce4617dc36dbaf288691383f83034f69365a8">>,
    <<338131, "0e5e436c64987b8d3d4b75b6962cb7cc19afed7e41d71b4f7750683bd6e8e89a">>,
    <<500060, "3162e099b404ea6bdf246eda4f96f63409e4421699d59961b0646de09cb5b5ae">>,
    <<500091, "3402fee8444fab44d5f5e8069d0d451cb44d9fcf688eaf21938e4b13f998d477">>,
    <<500092, "595a2537bd62ae981ea55ff1d162bad23efc47b48ed56cc8849ee17b541cd232">>,
    <<500093, "b7a87dca4f87d36e8de4e0af22c608f78b2b3d7ed828cb78043c67279d64da34">>,
    <<500094, "f6438a9b612b3df8cff09257376a15312749e5f79001cbe964dd7a1fe47915d8">>,
    <<500095, "551a48dbfaaf92431e86523db2623dd067fd232da23e32482d47d96e338d805e">>,
    <<500096, "77362bb7d9634286ec5357e6cc67b18bf41f03ac52389146d80134c2de232c90">>,
    <<500097, "18a9862eda00a672e45dd4a07fda31c9f94a36946860a3fbbd1c58e3ebaffe46">>,
    <<570000, "e208f70a4a587e5cf9856fc678329c6e2a8a112a86b96caabb07f07f89181342">>,
    <<570001, "d12e464f1a0700125a66653bac66236e6b9268398d9cc117e18d8d87114079d6">>,
    <<570002, "e1e2a73662b242b33b9011a39e738fd733287bda190b7cf90d3f506ce4ea0d49">>,
    <<570003, "23cb7c0fe4e3ddeb599c1412ea669c01fe4aa4b979b9e5117cc4b2801de43c7b">>,
    <<570004, "20214d3f75d37ceb5a605049084d791112818ddd56206d67ebb5fe28d03cee81">>,
    <<570005, "1af4da6b32d251f240c19960856fe00d2d7265706dd03c108c92fa3398f47dec">>,
    <<570006, "c9b961073eb18abbc06e16109e842a9164a7e640971619c98300140ee4d8ca0f">>,
    <<570007, "102dc5dd519ad9ec4789509f997bafffdf40badb00207e6a039d10098270a013">>,
    <<570008, "6b22df08fa0019d47062a04912f973e0a47d349ce9b60846d374e0dee8c9f2fe">>,
    <<570009, "37e275f7c6333bdc4d35690385aae8f43fb3e5c47148779896106c90378d58ff">>,
    <<570010, "37a6874dbc046ea5bb500f495d2a0cff4d3780c2ccc806bb1e7263d6be0f726e">>,
    <<570100, "bb5558576e556309d68a6c5340ca8c3ec25c2e817d2213dc783f8e73585fb882">>,
    <<570500, "75ae08bcb3381a690dfbe4ef6e1df2255ffd31799ab430b559cb8f27225aa0bf">>,
    <<571000, "8214268da414868124394816005becd108c14dd698f3cf52806c6b4bdf9c55dd">>,
    <<572000, "10ebe56e4abdd6ce6aa8d23591c33738129d486e077f008e95ee789c80cb137e">>,
    <<572500, "7ef06ab2d81eb6b26485fce59cf4962070b8911b60fb06e0edc91a7085b46fff">>,
    <<575000, "bb96c665292eb274fab3296ab3d17c5fa1e4f60f663390725df629c96e97b673">>,
    <<576000, "7ad28e4695bf5fe7ff662208fdd429b0cfb527e5b0f9e416c4807afef7f0ea98">>,
    <<577000, "6a8fbc9416df1a1318d7264a8935e86849dc634cff44c35e618bb40b22a1e3a4">>,
    <<578000, "71efd65fa9d494217b0d7b7aeed9264abe3cab1fd4caf1fa2c305deee4f9c91b">>,
    <<580000, "c7cef0de1ade1eaa6edaa4c886d8cd3db69842862f20067902ac876135b41060">>,
    <<659000, "f87e10716fbdd85a7bda015dbb9d86fa1804fafffbe89c9f8bac1175ffb6a189">>,
    <<659001, "3fb1a49b88fc2e3a27bfca45db97042df368e76a13ea11eab3be3ea85bb330b6">>,
    <<659002, "1bda90c99301c5a30e45f5f08f919489ca822289700d4ffda25e5e0719b06c55">>,
    <<659003, "6f3c880cf837ba7c75cace9273bd2e7a7e2a1a4f310842840b77635cfb29c94e">>,
    <<659004, "307a20286eab111041028f92c3d0980e9f8a11e9723785115bb3790557e07a4d">>,
    <<659005, "6db7095fabfe42477f2939bb5e008aaad3bfda4b5e9de8b2ee0260cfc7b6749a">>,
    <<659006, "db663f8aef9f42972ae88ab9f45e916748cb21b6a3c1fcbd865a5c924fa2880e">>,
    <<659007, "378d8fa198b0eacb77ac88954f99f930166c2fb1391264c34954b5103f4ebffe">>,
    <<659008, "8ffc00a38f02f2ead1c823a829a62e87f842f2c21f6bf2994b98fb748f08aadf">>,
    <<659009, "c284e37e6296d07b96c0b561ea4fe8d0740bac7b9ac70cbc5400341fe376f513">>,
    <<673449, "40b86f57befb6f5930900aca81784fd9fa4ef1bfdd51b47e3851381573aaaa8c">>
  >>

\* Hash strings the callers, the JSON file and the DNS records supply.
\* StrA and StrAUpper spell the same 32 bytes; StrBad is not hex.
StrA == "aaaaaaaaaaaaaaaaaaaaaaaaaaaaaaaaaaaaaaaaaaaaaaaaaaaaaaaaaaaaaaaa"
StrAUpper == "AAAAAAAAAAAAAAAAAAAAAAAAAAAAAAAAAAAAAAAAAAAAAAAAAAAAAAAAAAAAAAAA"
StrB == "bbbbbbbbbbbbbbbbbbbbbbbbbbbbbbbbbbbbbbbbbbbbbbbbbbbbbbbbbbbbbbbb"
StrBad == "not-a-hash"

SampleStrings == {StrA, StrAUpper, StrB, StrBad}

SeqRange(s) == { s[i] : i \in 1..Len(s) }

DefaultStrings ==
  { e[2] : e \in SeqRange(MainnetCheckpoints) \cup SeqRange(TestnetCheckpoints)
                   \cup SeqRange(StagenetCheckpoints) }

\* parse_tpod_from_hex_string: the 32 bytes a string of 64 hex digits spells
\* (named here by their lower-case spelling), or failure
parse_tpod_from_hex_string(str) ==
  IF str \in DefaultStrings \cup {StrA, StrB} THEN [ok |-> TRUE, h |-> str]
  ELSE IF str = StrAUpper THEN [ok |-> TRUE, h |-> StrA]
  ELSE [ok |-> FALSE, h |-> "null_hash"]

\* m_points[height] = h
Store(points, height, h) ==
  Written([k \in DOMAIN points \cup {height} |->
             IF k = height THEN h ELSE points[k]])

add_checkpoint_overwrite(points, height, hash_str) ==
  LET p == parse_tpod_from_hex_string(hash_str)
  IN IF ~p.ok THEN [ret |-> FALSE, points |-> points]
     ELSE [ret |-> TRUE, points |-> Store(points, height, p.h)]

add_checkpoint_once(points, height, hash_str) ==
  LET p == parse_tpod_from_hex_string(hash_str)
  IN IF ~p.ok THEN [ret |-> FALSE, points |-> points]
     ELSE IF height \in DOMAIN points
       THEN [ret |-> FALSE, points |-> points]
     ELSE [ret |-> TRUE, points |-> Store(points, height, p.h)]

add_checkpoint(points, height, hash_str) ==
  LET p == parse_tpod_from_hex_string(hash_str)
  IN IF ~p.ok THEN [ret |-> FALSE, points |-> points]
     ELSE IF height \in DOMAIN points /\ p.h # points[height]
       THEN [ret |-> FALSE, points |-> points]
     ELSE [ret |-> TRUE, points |-> Store(points, height, p.h)]

\* history: heights newly pinned in points are noted with the hash they got
Noted(first, points) ==
  Written([k \in DOMAIN points |->
             IF k \in DOMAIN first THEN first[k] ELSE points[k]])

SetMax(S) == CHOOSE m \in S : \A k \in S : k <= m

is_in_checkpoint_zone(points, height) ==
  DOMAIN points # {} /\ height <= SetMax(DOMAIN points)

check_block_lenient(points, height, h) ==
  [ret |-> TRUE, is_a_checkpoint |-> height \in DOMAIN points]

check_block(points, height, h) ==
  LET is_a_checkpoint == height \in DOMAIN points
  IN IF ~is_a_checkpoint THEN [ret |-> TRUE, is_a_checkpoint |-> FALSE]
     ELSE IF points[height] = h THEN [ret |-> TRUE, is_a_checkpoint |-> TRUE]
     ELSE [ret |-> FALSE, is_a_checkpoint |-> TRUE]

is_alternative_block_allowed_zero(points, blockchain_height, block_height) ==
  LET it == { k \in DOMAIN points : k > blockchain_height }
  IN IF it = DOMAIN points THEN TRUE
     ELSE SetMax(DOMAIN points \ it) < block_height

is_alternative_block_allowed_lowest(points, blockchain_height, block_height) ==
  IF 0 = block_height THEN FALSE
  ELSE LET it == { k \in DOMAIN points : k > blockchain_height }
       IN IF it = DOMAIN points THEN TRUE
          ELSE LET checkpoint_height ==
                     CHOOSE m \in DOMAIN points \ it :
                       \A k \in DOMAIN points \ it : m <= k
               IN checkpoint_height < block_height

is_alternative_block_allowed(points, blockchain_height, block_height) ==
  IF 0 = block_height THEN FALSE
  ELSE \* upper_bound: the keys above blockchain_height; begin() iff all are
       LET it == { k \in DOMAIN points : k > blockchain_height }
       IN IF it = DOMAIN points THEN TRUE
          ELSE LET checkpoint_height == SetMax(DOMAIN points \ it)
               IN checkpoint_height < block_height

\* What dereferencing max_element's end() of an empty map can yield: the
\* process dies, or some word of memory is read as the height.
Crash == -2
GarbageHeights == {0, 2147483647}
UndefinedOutcomes == GarbageHeights \cup {Crash}

\* the outcomes are drawn only where the read happens
UndefinedRead(points) == IF DOMAIN points = {} THEN UndefinedOutcomes ELSE {Crash}

get_max_height_lowest(points, undefined) ==
  IF DOMAIN points = {} THEN undefined
  ELSE CHOOSE m \in DOMAIN points : \A k \in DOMAIN points : m <= k

get_max_height(points, undefined) ==
  IF DOMAIN points = {} THEN undefined ELSE SetMax(DOMAIN points)

\* ADD_CHECKPOINT(h, hash) for the entries lo..hi of list, in order: the
\* enclosing function returns false at the first add_checkpoint that fails.
\* The run is cut in halves so that the evaluation stays shallow.
RECURSIVE add_range(_, _, _, _, _)
add_range(points, first, list, lo, hi) ==
  IF lo > hi THEN [ret |-> TRUE, points |-> points, first |-> first]
  ELSE IF lo = hi
    THEN LET r == add_checkpoint(points, list[lo][1], list[lo][2])
         IN IF ~r.ret THEN [ret |-> FALSE, points |-> points, first |-> first]
            ELSE [ret |-> TRUE, points |-> r.points,
                  first |-> Noted(first, r.points)]
  ELSE LET mid == (lo + hi) \div 2
           a == add_range(points, first, list, lo, mid)
       IN IF ~a.ret THEN a
          ELSE add_range(a.points, a.first, list, mid + 1, hi)

add_all(points, first, list) == add_range(points, first, list, 1, Len(list))

init_default_checkpoints(points, first, nettype) ==
  IF nettype = "TESTNET" THEN add_all(points, first, TestnetCheckpoints)
  ELSE IF nettype = "STAGENET" THEN add_all(points, first, StagenetCheckpoints)
  ELSE add_all(points, first, MainnetCheckpoints)

RECURSIVE json_lines_unpinned(_, _, _, _, _)
json_lines_unpinned(points, first, hashlines, i, prev_max_height) ==
  IF i > Len(hashlines) THEN [ret |-> TRUE, points |-> points, first |-> first]
  ELSE IF hashlines[i].height \in DOMAIN points
    THEN json_lines_unpinned(points, first, hashlines, i + 1, prev_max_height)
  ELSE LET r == add_checkpoint(points, hashlines[i].height, hashlines[i].hash)
       IN IF ~r.ret THEN [ret |-> FALSE, points |-> points, first |-> first]
          ELSE json_lines_unpinned(r.points, Noted(first, r.points), hashlines,
                                   i + 1, prev_max_height)

RECURSIVE json_lines(_, _, _, _, _)
json_lines(points, first, hashlines, i, prev_max_height) ==
  IF i > Len(hashlines) THEN [ret |-> TRUE, points |-> points, first |-> first]
  ELSE IF hashlines[i].height <= prev_max_height
    THEN json_lines(points, first, hashlines, i + 1, prev_max_height)
  ELSE LET r == add_checkpoint(points, hashlines[i].height, hashlines[i].hash)
       IN IF ~r.ret THEN [ret |-> FALSE, points |-> points, first |-> first]
          ELSE json_lines(r.points, Noted(first, r.points), hashlines, i + 1,
                          prev_max_height)

load_checkpoints_from_json_eager(points, first, file, undefined) ==
  LET prev_max_height == get_max_height(points, undefined)
  IN IF prev_max_height = Crash
       THEN [ret |-> FALSE, points |-> points, first |-> first,
             crashed |-> TRUE]
     ELSE IF ~file.exists THEN [ret |-> TRUE, points |-> points, first |-> first]
     ELSE IF ~file.wellformed
       THEN [ret |-> FALSE, points |-> points, first |-> first]
     ELSE json_lines(points, first, file.hashlines, 1, prev_max_height)

\* file: whether the path exists, whether it parses, and its hashlines
load_checkpoints_from_json(points, first, file, undefined) ==
  IF ~file.exists THEN [ret |-> TRUE, points |-> points, first |-> first]
  ELSE LET prev_max_height == get_max_height(points, undefined)
       IN IF prev_max_height = Crash
            THEN [ret |-> FALSE, points |-> points, first |-> first,
                  crashed |-> TRUE]
          ELSE IF ~file.wellformed
            THEN [ret |-> FALSE, points |-> points, first |-> first]
          ELSE json_lines(points, first, file.hashlines, 1, prev_max_height)

\* a TXT record: whether it holds a ':', what ss >> height makes of the part
\* before it (NoHeight: nothing), and the part after it
NoHeight == -1

RECURSIVE dns_records_strict(_, _, _, _)
dns_records_strict(points, first, records, i) ==
  IF i > Len(records) THEN [ret |-> TRUE, points |-> points, first |-> first]
  ELSE IF ~records[i].colon THEN dns_records_strict(points, first, records, i + 1)
  ELSE IF records[i].height = NoHeight
    THEN dns_records_strict(points, first, records, i + 1)
  ELSE LET r == add_checkpoint(points, records[i].height, records[i].hash)
       IN IF ~r.ret THEN [ret |-> FALSE, points |-> points, first |-> first]
          ELSE dns_records_strict(r.points, Noted(first, r.points), records,
                                  i + 1)

RECURSIVE dns_records(_, _, _, _)
dns_records(points, first, records, i) ==
  IF i > Len(records) THEN [ret |-> TRUE, points |-> points, first |-> first]
  ELSE IF ~records[i].colon THEN dns_records(points, first, records, i + 1)
  ELSE IF records[i].height = NoHeight
    THEN dns_records(points, first, records, i + 1)
  ELSE IF ~parse_tpod_from_hex_string(records[i].hash).ok
    THEN dns_records(points, first, records, i + 1)
  ELSE LET r == add_checkpoint(points, records[i].height, records[i].hash)
       IN IF ~r.ret THEN [ret |-> FALSE, points |-> points, first |-> first]
          ELSE dns_records(r.points, Noted(first, r.points), records, i + 1)

\* response: whether load_txt_records_from_dns succeeded, and its records
\* (nettype only chooses the names that are asked)
load_checkpoints_from_dns(points, first, response) ==
  IF ~response.ok THEN [ret |-> TRUE, points |-> points, first |-> first]
  ELSE dns_records(points, first, response.records, 1)

SampleHeights == {0, 10, 700000}
SampleHashes == {StrA, StrB}
ChainHeights == {0, 1, 200000, 400000}

JsonFiles ==
  { [exists |-> FALSE, wellformed |-> FALSE, hashlines |-> <<>>],
    [exists |-> TRUE, wellformed |-> FALSE, hashlines |-> <<>>],
    [exists |-> TRUE, wellformed |-> TRUE,
     hashlines |-> << [height |-> 10, hash |-> StrB],
                      [height |-> 700000, hash |-> StrA] >>],
    [exists |-> TRUE, wellformed |-> TRUE,
     hashlines |-> << [height |-> 700000, hash |-> StrB],
                      [height |-> 800000, hash |-> StrBad],
                      [height |-> 900000, hash |-> StrA] >>],
    [exists |-> TRUE, wellformed |-> TRUE,
     hashlines |-> << [height |-> 10, hash |-> StrB],
                      [height |-> 800000, hash |-> StrA] >>] }

DnsResponses ==
  { [ok |-> FALSE, records |-> <<>>],
    [ok |-> TRUE,
     records |-> << [colon |-> FALSE, height |-> NoHeight, hash |-> ""],
                    [colon |-> TRUE, height |-> NoHeight, hash |-> StrA],
                    [colon |-> TRUE, height |-> 10, hash |-> StrBad],
                    [colon |-> TRUE, height |-> 700000, hash |-> StrAUpper] >>],
    [ok |-> TRUE,
     records |-> << [colon |-> TRUE, height |-> 10, hash |-> StrA],
                    [colon |-> TRUE, height |-> 700000, hash |-> StrB],
                    [colon |-> TRUE, height |-> 800000, hash |-> StrA] >>] }

Init ==
  /\ m_points = NoPoints
  /\ first_hash = NoPoints
  /\ cp = IdleCp
  /\ pow = IdlePow
  /\ rw = IdleRw
  /\ df = IdleDf

Alive == cp.op # "crashed"

AddCheckpoint ==
  /\ Alive
  /\ \E height \in SampleHeights, hash_str \in SampleStrings :
       LET r == add_checkpoint(m_points, height, hash_str)
       IN /\ m_points' = r.points
          /\ first_hash' = Noted(first_hash, r.points)
          /\ cp' = [op |-> "add_checkpoint", height |-> height,
                    hash_str |-> hash_str,
                    count |-> IF height \in DOMAIN m_points THEN 1 ELSE 0,
                    ret |-> r.ret]
  /\ UNCHANGED <<pow, rw, df>>

InitDefaultCheckpoints ==
  /\ Alive
  /\ \E nettype \in NetworkTypes :
       LET r == init_default_checkpoints(m_points, first_hash, nettype)
       IN /\ m_points' = r.points
          /\ first_hash' = r.first
          /\ cp' = [op |-> "init_default_checkpoints", nettype |-> nettype,
                    ret |-> r.ret]
  /\ UNCHANGED <<pow, rw, df>>

LoadCheckpointsFromJson ==
  /\ Alive
  /\ \E file \in JsonFiles, undefined \in UndefinedRead(m_points) :
       LET r == load_checkpoints_from_json(m_points, first_hash, file, undefined)
       IN /\ m_points' = r.points
          /\ first_hash' = r.first
          /\ cp' = IF "crashed" \in DOMAIN r
                     THEN [op |-> "crashed", in |-> "load_checkpoints_from_json",
                           file |-> file]
                   ELSE IF ~file.exists
                     THEN [op |-> "load_checkpoints_from_json", file |-> file,
                           ret |-> r.ret]
                   ELSE [op |-> "load_checkpoints_from_json", file |-> file,
                         prev_max_height |-> get_max_height(m_points, undefined),
                         ret |-> r.ret]
  /\ UNCHANGED <<pow, rw, df>>

LoadCheckpointsFromDns ==
  /\ Alive
  /\ \E response \in DnsResponses :
       LET r == load_checkpoints_from_dns(m_points, first_hash, response)
       IN /\ m_points' = r.points
          /\ first_hash' = r.first
          /\ cp' = [op |-> "load_checkpoints_from_dns", response |-> response,
                    ret |-> r.ret]
  /\ UNCHANGED <<pow, rw, df>>

CheckBlock ==
  /\ Alive
  /\ \E height \in {10, 333685, 700000}, h \in SampleHashes :
       LET r == check_block(m_points, height, h)
       IN cp' = [op |-> "check_block", height |-> height, h |-> h,
                 ret |-> r.ret, is_a_checkpoint |-> r.is_a_checkpoint]
  /\ UNCHANGED <<m_points, first_hash, pow, rw, df>>

IsAlternativeBlockAllowed ==
  /\ Alive
  /\ \E blockchain_height \in {0, 1, 400000}, block_height \in ChainHeights :
       cp' = [op |-> "is_alternative_block_allowed",
              blockchain_height |-> blockchain_height,
              block_height |-> block_height,
              ret |-> is_alternative_block_allowed(m_points, blockchain_height,
                                                   block_height)]
  /\ UNCHANGED <<m_points, first_hash, pow, rw, df>>

IsInCheckpointZone ==
  /\ Alive
  /\ \E height \in ChainHeights :
       cp' = [op |-> "is_in_checkpoint_zone", height |-> height,
              ret |-> is_in_checkpoint_zone(m_points, height)]
  /\ UNCHANGED <<m_points, first_hash, pow, rw, df>>

GetMaxHeight ==
  /\ Alive
  /\ \E undefined \in UndefinedRead(m_points) :
       LET r == get_max_height(m_points, undefined)
       IN cp' = IF r = Crash THEN [op |-> "crashed", in |-> "get_max_height"]
                ELSE [op |-> "get_max_height", ret |-> r]
  /\ UNCHANGED <<m_points, first_hash, pow, rw, df>>

Next ==
  \/ AddCheckpoint
  \/ InitDefaultCheckpoints
  \/ LoadCheckpointsFromJson
  \/ LoadCheckpointsFromDns
  \/ CheckBlock
  \/ IsAlternativeBlockAllowed
  \/ IsInCheckpointZone
  \/ GetMaxHeight

Spec == Init /\ [][Next]_vars

\* C2: every pinned height holds the hash first stored for it, whichever of
\* add_checkpoint, init_default_checkpoints, load_checkpoints_from_json and
\* load_checkpoints_from_dns ran; no operation changes or removes a pinned
\* hash; and add_checkpoint with a different hash for a pinned height
\* returns false.
C2_FirstHashWins ==
  /\ [](\A height \in DOMAIN m_points : m_points[height] = first_hash[height])
  /\ [][/\ \A height \in DOMAIN m_points :
             height \in DOMAIN m_points' /\ m_points'[height] = m_points[height]
        /\ (/\ cp'.op = "add_checkpoint"
            /\ cp'.height \in DOMAIN m_points
            /\ parse_tpod_from_hex_string(cp'.hash_str).ok
            /\ parse_tpod_from_hex_string(cp'.hash_str).h # m_points[cp'.height])
           => (cp'.ret = FALSE /\ m_points' = m_points)]_vars

\* a different, well-formed hash was refused at a pinned height
C2_Witness ==
  /\ cp.op = "add_checkpoint"
  /\ cp.ret = FALSE
  /\ parse_tpod_from_hex_string(cp.hash_str).ok
  /\ cp.height \in DOMAIN m_points
  /\ m_points[cp.height] # parse_tpod_from_hex_string(cp.hash_str).h

\* C3: is_alternative_block_allowed is false for block_height 0; for
\* block_height >= 1 it is true exactly when every checkpoint at or below
\* blockchain_height lies strictly below block_height (none at all included).
C3_AlternativeAllowed ==
  cp.op = "is_alternative_block_allowed" =>
    (cp.ret <=>
      /\ cp.block_height >= 1
      /\ \A height \in DOMAIN m_points :
           height <= cp.blockchain_height => height < cp.block_height)

\* with the default checkpoints (333685 among them) and the chain at 400000,
\* a block at 200000 was refused
C3_Witness ==
  /\ cp.op = "is_alternative_block_allowed"
  /\ 333685 \in DOMAIN m_points
  /\ cp.blockchain_height = 400000
  /\ cp.block_height = 200000
  /\ cp.ret = FALSE

\* C4: check_block reports is_a_checkpoint exactly when the height is
\* pinned, and returns false exactly when it is pinned with another hash.
C4_CheckBlock ==
  cp.op = "check_block" =>
    /\ cp.is_a_checkpoint <=> cp.height \in DOMAIN m_points
    /\ cp.ret = FALSE <=>
         (cp.height \in DOMAIN m_points /\ m_points[cp.height] # cp.h)

\* a block whose hash differs from the pinned one was rejected
C4_Witness ==
  /\ cp.op = "check_block"
  /\ cp.height \in DOMAIN m_points
  /\ m_points[cp.height] # cp.h
  /\ cp.ret = FALSE
  /\ cp.is_a_checkpoint

\* C11: add_checkpoint for a height that is pinned leaves the registry as
\* it is, and returns true if the hash is the pinned one (adding the same
\* checkpoint twice is adding it once) and false if it is another one.
C11_Idempotence ==
  [][(cp'.op = "add_checkpoint" /\ cp'.count = 1) =>
       /\ m_points' = m_points
       /\ cp'.ret <=>
            /\ parse_tpod_from_hex_string(cp'.hash_str).ok
            /\ parse_tpod_from_hex_string(cp'.hash_str).h = m_points[cp'.height]]_vars

\* the hash that height 10 is pinned to was added again, beside another
\* checkpoint
C11_Witness ==
  /\ cp.op = "add_checkpoint"
  /\ cp.count = 1
  /\ cp.ret = TRUE
  /\ cp.height = 10
  /\ DOMAIN m_points = {10, 700000}

\* C12: no step of the registry, add_checkpoint calls that succeed or fail
\* among them, removes a pinned height, and on a registry that is not
\* empty none lowers what get_max_height returns (a step that leaves the
\* registry as it is does neither).
C12_Monotone ==
  [][m_points' # m_points =>
       /\ DOMAIN m_points \subseteq DOMAIN m_points'
       /\ DOMAIN m_points # {} =>
            get_max_height(m_points, Crash) <= get_max_height(m_points', Crash)]_vars

\* height 10 was added below the pinned height 700000
C12_Witness ==
  /\ cp.op = "add_checkpoint"
  /\ cp.count = 0
  /\ cp.ret = TRUE
  /\ cp.height = 10
  /\ 700000 \in DOMAIN m_points
  /\ get_max_height(m_points, Crash) = 700000

\* C14: load_checkpoints_from_json on a file that exists and parses ignores
\* exactly the entries whose height is at or below the greatest height
\* pinned before the load, pinned or not, and hands every other entry to
\* add_checkpoint in the order of the file: it returns true and has pinned
\* them all, or returns false because one of them has a hash that does not
\* parse or that differs from an earlier entry of the same height.
C14_JsonBeyondMaximum ==
  [][(/\ cp'.op = "load_checkpoints_from_json"
      /\ cp'.file.exists
      /\ cp'.file.wellformed) =>
       LET hashlines == cp'.file.hashlines
           parsed(i) == parse_tpod_from_hex_string(hashlines[i].hash)
           beyond == { i \in 1..Len(hashlines) :
                         hashlines[i].height > cp'.prev_max_height }
           ignored == (1..Len(hashlines)) \ beyond
       IN /\ DOMAIN m_points # {} =>
               cp'.prev_max_height = SetMax(DOMAIN m_points)
          /\ \A i \in ignored :
               hashlines[i].height \in DOMAIN m_points' <=>
                 hashlines[i].height \in DOMAIN m_points
          /\ DOMAIN m_points' \ DOMAIN m_points \subseteq
               { hashlines[i].height : i \in beyond }
          /\ cp'.ret <=>
               \A i \in beyond :
                 /\ parsed(i).ok
                 /\ \A j \in beyond :
                      hashlines[j].height = hashlines[i].height =>
                        parsed(j).h = parsed(i).h
          /\ cp'.ret =>
               \A i \in beyond :
                 /\ hashlines[i].height \in DOMAIN m_points'
                 /\ m_points'[hashlines[i].height] = parsed(i).h]_vars

\* with 700000 the greatest pinned height, a file with the heights 10 and
\* 800000 was loaded: 800000 was pinned and 10, not pinned, was ignored
C14_Witness ==
  /\ cp.op = "load_checkpoints_from_json"
  /\ cp.file.exists
  /\ cp.file.wellformed
  /\ cp.ret = TRUE
  /\ cp.prev_max_height = 700000
  /\ cp.file.hashlines[1].height = 10
  /\ 10 \notin DOMAIN m_points
  /\ 800000 \in DOMAIN m_points

\* C14 as stated: after a load that succeeded on a registry that was not
\* empty, every entry of the file is pinned, the unpinned heights below the
\* greatest pinned height included.
C14_JsonAddsUnpinned ==
  [][(/\ cp'.op = "load_checkpoints_from_json"
      /\ cp'.file.exists
      /\ cp'.file.wellformed
      /\ DOMAIN m_points # {}
      /\ cp'.ret) =>
       \A i \in 1..Len(cp'.file.hashlines) :
         cp'.file.hashlines[i].height \in DOMAIN m_points']_vars

\* C15: a source that is not there is a successful load of nothing:
\* load_checkpoints_from_json on a path that does not exist, and
\* load_checkpoints_from_dns when the TXT lookup fails, return true and
\* leave the registry as it was; the missing file is found before the
\* greatest pinned height is asked for, so this holds on an empty registry.
C15_UnavailableSources ==
  [][/\ (cp'.op = "load_checkpoints_from_json" /\ ~cp'.file.exists) =>
          (cp'.ret = TRUE /\ m_points' = m_points)
     /\ (cp'.op = "load_checkpoints_from_dns" /\ ~cp'.response.ok) =>
          (cp'.ret = TRUE /\ m_points' = m_points)
     /\ (cp'.op = "crashed" /\ cp'.in = "load_checkpoints_from_json") =>
          cp'.file.exists]_vars

\* a path that does not exist was loaded into the empty registry
C15_Witness ==
  /\ cp.op = "load_checkpoints_from_json"
  /\ ~cp.file.exists
  /\ cp.ret = TRUE
  /\ m_points = NoPoints

\* C16: load_checkpoints_from_dns skips a record without ':', or whose
\* height or hash does not parse: such a record pins nothing and does not
\* make the load fail, and the records after it are processed. The load
\* returns false only for a record that parses and contradicts the hash
\* pinned at its height; with none, every record that parses is pinned.
C16_DnsSkipsBadRecords ==
  [][(cp'.op = "load_checkpoints_from_dns" /\ cp'.response.ok) =>
       LET records == cp'.response.records
           parsed(i) == parse_tpod_from_hex_string(records[i].hash)
           valid == { i \in 1..Len(records) :
                        /\ records[i].colon
                        /\ records[i].height # NoHeight
                        /\ parsed(i).ok }
           agrees(i) ==
             /\ records[i].height \in DOMAIN m_points =>
                  m_points[records[i].height] = parsed(i).h
             /\ \A j \in valid :
                  records[j].height = records[i].height =>
                    parsed(j).h = parsed(i).h
       IN /\ DOMAIN m_points' \ DOMAIN m_points \subseteq
               { records[i].height : i \in valid }
          /\ cp'.ret <=> \A i \in valid : agrees(i)
          /\ \A i \in valid :
               (\A j \in valid : j <= i => agrees(j)) =>
                 /\ records[i].height \in DOMAIN m_points'
                 /\ m_points'[records[i].height] = parsed(i).h]_vars

\* a response whose first three records have no ':', no height and no
\* hash was loaded, and its fourth record pinned 700000
C16_Witness ==
  /\ cp.op = "load_checkpoints_from_dns"
  /\ cp.response.ok
  /\ ~cp.response.records[1].colon
  /\ cp.response.records[2].height = NoHeight
  /\ ~parse_tpod_from_hex_string(cp.response.records[3].hash).ok
  /\ cp.ret = TRUE
  /\ DOMAIN m_points = {700000}
  /\ m_points[700000] = StrA

--------------------------------------------------------------------------
(* IEEE-754 binary64 values as m * 2^e with m below 2^53, and the
   operations get_block_reward performs on them, each rounding to nearest,
   ties to even *)

BitLen(x) ==
  IF x = <<>> THEN 0
  ELSE 8 * (Len(x) - 1)
       + (CHOOSE b \in 1..8 : Pow2Int(b - 1) <= x[Len(x)] /\ x[Len(x)] < Pow2Int(b))


\* q * 2^e, plus a positive part below 2^e if sticky, rounded to 53 bits
RoundBits(q, sticky, e) ==
  LET s == BitLen(q) - 53
  IN IF s <= 0 THEN [m |-> q, e |-> e]
     ELSE LET kept == BShr(q, s)
              low == LowBits(q, s)
              half == Pow2(s - 1)
              up == \/ BLess(half, low)
                    \/ low = half /\ sticky
                    \/ low = half /\ ~sticky /\ Digit(kept, 1) % 2 = 1
          IN [m |-> IF up THEN BAdd(kept, <<1>>) ELSE kept, e |-> e + s]

LiteralBits == 8 * 9

\* the double a decimal literal n / d denotes
DLit(n, d) ==
  LET num == BShl(FromInt(n), LiteralBits)
  IN RoundBits(BDiv(num, FromInt(d)), BMod(num, FromInt(d)) # <<>>, -LiteralBits)

\* (double) of a uint64_t
ToDouble(x) == RoundBits(x, FALSE, 0)

DMul(a, b) == RoundBits(BMul(a.m, b.m), FALSE, a.e + b.e)

DAdd(a, b) ==
  LET e0 == Min(a.e, b.e)
  IN RoundBits(BAdd(BShl(a.m, a.e - e0), BShl(b.m, b.e - e0)), FALSE, e0)

\* (uint64_t) of a double in range: the integer part
DTrunc(a) == IF a.e >= 0 THEN BShl(a.m, a.e) ELSE BShr(a.m, -a.e)

Lit_0_1888 == DLit(1888, 10000)
Lit_0_023 == DLit(23, 1000)
Lit_0_0032 == DLit(32, 10000)

\* 0.1888 + interval_num*(0.023 + interval_num*0.0032)
money_supply_pct(interval_num) ==
  LET k == ToDouble(FromInt(interval_num))
  IN DAdd(Lit_0_1888, DMul(k, DAdd(Lit_0_023, DMul(k, Lit_0_0032))))

--------------------------------------------------------------------------
(* get_block_reward *)

MONEY_SUPPLY_ETN == Dec(<<2, 100, 0, 0, 0>>)
MONEY_SUPPLY == Dec(<<21, 0, 0, 0, 0>>)
TOKENS == Dec(<<20, 0, 0, 0, 0>>)
ELECTRONERO_TOKENS == Dec(<<3, 610, 309, 0, 0, 0>>)
EMISSION_SPEED_FACTOR_PER_MINUTE == 20
FINAL_SUBSIDY_PER_MINUTE == Dec(<<100, 0, 0>>)
FINAL_SUBSIDY_ACTIVATOR == FromInt(666)
CRYPTONOTE_BLOCK_GRANTED_FULL_REWARD_ZONE_V1 == 20000
CRYPTONOTE_BLOCK_GRANTED_FULL_REWARD_ZONE_V2 == 60000
CRYPTONOTE_BLOCK_GRANTED_FULL_REWARD_ZONE_V5 == 300000
DIFFICULTY_TARGET_V1 == 60
DIFFICULTY_TARGET_V2 == 120
DIFFICULTY_TARGET == DIFFICULTY_TARGET_V2
COIN_EMISSION_MONTH_INTERVAL == 6
\* 30.4375 * 24 * 3600 is 2629800
COIN_EMISSION_HEIGHT_INTERVAL ==
  (COIN_EMISSION_MONTH_INTERVAL * 2629800) \div DIFFICULTY_TARGET
PEAK_COIN_EMISSION_YEAR == 4
PEAK_COIN_EMISSION_HEIGHT ==
  ((12 * 2629800) \div DIFFICULTY_TARGET) * PEAK_COIN_EMISSION_YEAR

MAINNET_HARDFORK_V7_HEIGHT == 307003
MAINNET_HARDFORK_V10_HEIGHT == 310790
MAINNET_HARDFORK_V14_HEIGHT == 337816
MAINNET_HARDFORK_V16_HEIGHT == 500060
MAINNET_HARDFORK_V17_HEIGHT == 570000
MAINNET_HARDFORK_V18_HEIGHT == 659000
MAINNET_HARDFORK_V19_HEIGHT == 739800
MAINNET_HARDFORK_V20_HEIGHT == 1132596
MAINNET_HARDFORK_V21_HEIGHT == 1132900
MAINNET_HARDFORK_V22_HEIGHT == 1132935
MAINNET_HARDFORK_V23_HEIGHT == 1183409
MAINNET_HARDFORK_V23_B_HEIGHT == 1183485

get_min_block_size_v1(version) ==
  FromInt(CRYPTONOTE_BLOCK_GRANTED_FULL_REWARD_ZONE_V1)

get_min_block_size(version) ==
  IF version < 2 THEN FromInt(CRYPTONOTE_BLOCK_GRANTED_FULL_REWARD_ZONE_V1)
  ELSE IF version < 5 THEN FromInt(CRYPTONOTE_BLOCK_GRANTED_FULL_REWARD_ZONE_V2)
  ELSE FromInt(CRYPTONOTE_BLOCK_GRANTED_FULL_REWARD_ZONE_V5)

\* ELECTRONERO_PULSE and ELECTRONERO_COINS are fixed by the build; supply
\* carries the two values
COIN_SUPPLY(version, height, supply) ==
  LET COIN_SUPPLY_V1 == IF version < 7 THEN MONEY_SUPPLY_ETN
                        ELSE IF version < 10 THEN MONEY_SUPPLY
                        ELSE IF version < 16 THEN TOKENS
                        ELSE ELECTRONERO_TOKENS
  IN IF height < MAINNET_HARDFORK_V20_HEIGHT THEN COIN_SUPPLY_V1
     ELSE IF height < MAINNET_HARDFORK_V23_B_HEIGHT THEN supply.pulse
     ELSE supply.coins

reward_target(height) ==
  IF height < MAINNET_HARDFORK_V7_HEIGHT THEN DIFFICULTY_TARGET_V1
  ELSE IF height >= MAINNET_HARDFORK_V14_HEIGHT THEN DIFFICULTY_TARGET_V1
  ELSE DIFFICULTY_TARGET_V2

emission_speed_factor(height) ==
  EMISSION_SPEED_FACTOR_PER_MINUTE - (reward_target(height) \div 60 - 1)

emission_speed(height) ==
  LET target_minutes == reward_target(height) \div 60
      E == EMISSION_SPEED_FACTOR_PER_MINUTE
  IN IF height < MAINNET_HARDFORK_V7_HEIGHT THEN E - (target_minutes - 1)
     ELSE IF height < MAINNET_HARDFORK_V10_HEIGHT THEN E + (target_minutes - 1)
     ELSE IF height < MAINNET_HARDFORK_V16_HEIGHT THEN E + (target_minutes - 2)
     ELSE IF height < MAINNET_HARDFORK_V17_HEIGHT THEN E - (target_minutes - 1)
     ELSE IF height < MAINNET_HARDFORK_V18_HEIGHT THEN E + (target_minutes + 1)
     ELSE IF height < MAINNET_HARDFORK_V19_HEIGHT THEN E + (target_minutes + 9)
     ELSE IF height < MAINNET_HARDFORK_V20_HEIGHT THEN E + (target_minutes + 6)
     ELSE IF height < MAINNET_HARDFORK_V21_HEIGHT THEN E + (target_minutes + 9)
     ELSE IF height < MAINNET_HARDFORK_V22_HEIGHT THEN E + (target_minutes + 7)
     ELSE IF height < MAINNET_HARDFORK_V23_HEIGHT THEN E + (target_minutes + 9)
     ELSE IF height < MAINNET_HARDFORK_V23_B_HEIGHT THEN E + (target_minutes + 8)
     ELSE E - (target_minutes - 3)

InjectionHeights ==
  {1, 307003, 310790, 500060, 1183410, 1183411, 1183412, 1183413, 1132597}

injection_genesis(height) == Dec(<<1, 260, 0, 0, 0>>)

injection(height) ==
  IF height = 1 THEN Dec(<<1, 260, 0, 0, 0>>)
  ELSE IF height = 307003 \/ height = 310790 THEN Dec(<<1, 260, 0, 0, 0>>)
  ELSE IF height = 500060 \/ height = 1183410 \/ height = 1183411
          \/ height = 1183412 \/ height = 1183413
    THEN Dec(<<613, 90, 0, 0, 0>>)
  ELSE Dec(<<3, 333, 333, 333, 310, 301, 990>>)

money_supply_pct_of ==
  Written([interval_num \in 0..9 |-> money_supply_pct(interval_num)])

\* base_reward as the formula gives it, from the supply cs in force and the
\* shift es
emission_formula_subtraction(cs, es, already_generated_coins, version, height) ==
  BShr(Sub64(cs, already_generated_coins), es)

emission_formula(cs, es, already_generated_coins, version, height) ==
  IF height > 307003 /\ version >= 7
    THEN IF height < PEAK_COIN_EMISSION_HEIGHT + COIN_EMISSION_HEIGHT_INTERVAL
           THEN BShr(DTrunc(DMul(ToDouble(cs),
                     money_supply_pct_of[height \div COIN_EMISSION_HEIGHT_INTERVAL])),
                     es)
         ELSE BShr(Sub64(cs, already_generated_coins), es)
  ELSE BShr(Sub64(cs, already_generated_coins), es)

\* rounding (floor) base reward
round_floor(b, version) ==
  IF version > 7 THEN BMulSmall(BDiv(b, <<10>>), 10) ELSE b

\* base_reward before the final subsidy is looked at
base_reward_untailed(already_generated_coins, version, height, supply) ==
  IF version < 2
    THEN BShr(Sub64(MONEY_SUPPLY_ETN, already_generated_coins), emission_speed(height))
  ELSE round_floor(emission_formula(COIN_SUPPLY(version, height, supply),
                                    emission_speed(height),
                                    already_generated_coins, version, height),
                   version)

final_subsidy(b, cs, already_generated_coins) ==
  IF BLess(b, FINAL_SUBSIDY_ACTIVATOR) /\ BLeq(cs, already_generated_coins)
    THEN FINAL_SUBSIDY_PER_MINUTE
  ELSE b

\* base_reward when the block size is looked at
base_reward(already_generated_coins, version, height, supply) ==
  final_subsidy(base_reward_untailed(already_generated_coins, version, height, supply),
                COIN_SUPPLY(version, height, supply), already_generated_coins)

\* the two 64-bit words of a 128-bit number
Words(x) == [hi |-> Hi64(x), lo |-> U64(x)]

\* mul128: the 128-bit product as two 64-bit words
mul128(multiplier, multiplicand) == Words(BMul(multiplier, multiplicand))

\* div128_32: the 128-bit quotient of hi:lo by a 32-bit divisor
div128_32(dividend_hi, dividend_lo, divisor) ==
  Words(BDiv(BAdd(BShl(dividend_hi, 64), dividend_lo), divisor))

\* the penalty for a block above the median, step by step: ret and reward
\* are what a build without assertions returns, assert_failed tells that
\* a build with assertions aborts in the call instead
penalised_reward(r, base, median_size, current_block_size) ==
  [ret |-> TRUE, reward |-> r.lo,
   assert_failed |-> ~ /\ BLess(median_size, U32Max)
                       /\ BLess(current_block_size, U32Max)
                       /\ r.hi = <<>>
                       /\ BLess(r.lo, base)]

penalised_second_once(r, base, median_size, current_block_size) ==
  penalised_reward(r, base, median_size, current_block_size)

penalised_second(r, base, median_size, current_block_size) ==
  penalised_reward(div128_32(r.hi, r.lo, Lo32(median_size)),
                   base, median_size, current_block_size)

penalised_first(product, base, median_size, current_block_size) ==
  penalised_second(div128_32(product.hi, product.lo, Lo32(median_size)),
                   base, median_size, current_block_size)

penalised_saturating(base, median_size, current_block_size) ==
  penalised_first(
    mul128(base, Lo32(Mul64(Sub64(Mul64(<<2>>, median_size), current_block_size),
                            current_block_size))),
    base, median_size, current_block_size)

penalised(base, median_size, current_block_size) ==
  penalised_first(
    mul128(base, Mul64(Sub64(Mul64(<<2>>, median_size), current_block_size),
                       current_block_size)),
    base, median_size, current_block_size)

InForce(median_size, version) ==
  IF BLess(median_size, get_min_block_size(version))
    THEN get_min_block_size(version) ELSE median_size

\* the reward by block size, median_size already made soft; on failure
\* reward is left as the caller had it, reward0
reward_by_size(base, median_size, current_block_size, reward0) ==
  CASE Computed(base) ->
    IF BLeq(current_block_size, median_size)
      THEN [ret |-> TRUE, reward |-> base, assert_failed |-> FALSE]
    ELSE IF BLess(Mul64(<<2>>, median_size), current_block_size)
      THEN [ret |-> FALSE, reward |-> reward0, assert_failed |-> FALSE]
    ELSE penalised(base, median_size, current_block_size)

get_block_reward(median_size, current_block_size, already_generated_coins, reward0, version, height, supply) ==
  IF height \in InjectionHeights
    THEN [ret |-> TRUE, reward |-> injection(height), assert_failed |-> FALSE]
  ELSE reward_by_size(base_reward(already_generated_coins, version, height, supply),
                      InForce(median_size, version), current_block_size, reward0)

RewardHeights ==
  {1, 2, 307003, 307004, 310790, 320000, 400000, 500060, 520000, 600000,
   700000, 1000000, 1132597, 1132600, 1132910, 1140000, 1183410, 1183413,
   1183414, 1183485}
RewardVersions == {1, 2, 7, 8, 16}
BuildSupplies ==
  { [pulse |-> ELECTRONERO_TOKENS, coins |-> ELECTRONERO_TOKENS],
    [pulse |-> Dec(<<1, 0, 0, 0, 0, 0, 0>>), coins |-> Dec(<<100, 0, 0, 0, 0, 0>>)] }
MedianSamples == {<<>>, FromInt(400000), BSub(U32Max, <<1>>)}

\* already_generated_coins around the cap cs
GeneratedSamples(cs) ==
  {<<>>, BSub(cs, Pow2(31)), BSub(cs, <<1>>), cs, BAdd(cs, <<1>>), U64Max}

\* block sizes around the median m in force
SizeSamples(m) ==
  {<<>>, m, BAdd(m, <<1>>), BMulSmall(m, 2), BAdd(BMulSmall(m, 2), <<1>>)}

\* calls worked out by hand: a version 7 block of 60000 bytes at 307100
WorkedCalls ==
  { [median_size |-> FromInt(60000), current_block_size |-> FromInt(60000),
     already_generated_coins |-> <<>>, version |-> 7, height |-> 307100] }

InitReward ==
  /\ \/ \E height \in RewardHeights, version \in RewardVersions,
           supply \in BuildSupplies, median_size \in MedianSamples :
          \E already_generated_coins \in
                GeneratedSamples(COIN_SUPPLY(version, height, supply)),
             current_block_size \in SizeSamples(InForce(median_size, version)) :
            rw = [pc |-> "call", median_size |-> median_size,
                  current_block_size |-> current_block_size,
                  already_generated_coins |-> already_generated_coins,
                  version |-> version, height |-> height, supply |-> supply,
                  ret |-> FALSE, reward |-> <<>>, assert_failed |-> FALSE]
     \/ \E call \in WorkedCalls, supply \in BuildSupplies :
          rw = [pc |-> "call", median_size |-> call.median_size,
                current_block_size |-> call.current_block_size,
                already_generated_coins |-> call.already_generated_coins,
                version |-> call.version, height |-> call.height,
                supply |-> supply,
                ret |-> FALSE, reward |-> <<>>, assert_failed |-> FALSE]
  /\ m_points = NoPoints
  /\ first_hash = NoPoints
  /\ cp = IdleCp
  /\ pow = IdlePow
  /\ df = IdleDf

get_block_reward_call ==
  /\ rw.pc = "call"
  /\ LET r == get_block_reward(rw.median_size, rw.current_block_size,
                               rw.already_generated_coins, rw.reward,
                               rw.version, rw.height, rw.supply)
     IN rw' = [rw EXCEPT !.pc = "done", !.ret = r.ret, !.reward = r.reward,
                         !.assert_failed = r.assert_failed]
  /\ UNCHANGED <<m_points, first_hash, cp, pow, df>>

NextReward == get_block_reward_call

SpecReward == InitReward /\ [][NextReward]_vars

RewardDone == rw.pc = "done"
NonInjection == rw.height \notin InjectionHeights
RwMedian == InForce(rw.median_size, rw.version)
RwBase == base_reward(rw.already_generated_coins, rw.version, rw.height, rw.supply)

\* C5: at the injection heights get_block_reward succeeds with the fixed
\* reward, whatever the sizes, the generated coins and the version:
\* 1_260_000_000_000 at 1, 307003 and 310790; 613_090_000_000_000 at 500060
\* and 1183410..1183413; 3_333_333_333_310_301_990 at 1132597.
C5_Injections ==
  (RewardDone /\ rw.height \in {1, 307003, 310790, 500060, 1183410, 1183411,
                                1183412, 1183413, 1132597}) =>
    /\ rw.ret
    /\ rw.height \in {1, 307003, 310790} => rw.reward = Dec(<<1, 260, 0, 0, 0>>)
    /\ rw.height \in {500060, 1183410, 1183411, 1183412, 1183413}
         => rw.reward = Dec(<<613, 90, 0, 0, 0>>)
    /\ rw.height = 1132597
         => rw.reward = Dec(<<3, 333, 333, 333, 310, 301, 990>>)

\* an injection paid for a block larger than twice the median
C5_Witness ==
  /\ RewardDone
  /\ rw.height = 1132597
  /\ BLess(BMulSmall(RwMedian, 2), rw.current_block_size)
  /\ rw.ret
  /\ rw.reward = Dec(<<3, 333, 333, 333, 310, 301, 990>>)

\* C6: at a height that is not an injection height get_block_reward returns
\* false exactly when current_block_size > 2 * M, M the larger of
\* median_size and the full reward zone of the version (20000 below
\* version 2, 60000 below version 5, 300000 from version 5 on).
C6_TooLarge ==
  (RewardDone /\ NonInjection) =>
    LET Z == IF rw.version < 2 THEN FromInt(20000)
             ELSE IF rw.version < 5 THEN FromInt(60000) ELSE FromInt(300000)
        M == IF BLess(rw.median_size, Z) THEN Z ELSE rw.median_size
    IN ~rw.ret <=> BLess(BMul(<<2>>, M), rw.current_block_size)

\* a block of 2M + 1 bytes was refused
C6_Witness ==
  /\ RewardDone
  /\ NonInjection
  /\ ~rw.ret
  /\ rw.current_block_size = BAdd(BMulSmall(RwMedian, 2), <<1>>)

\* C7: when get_block_reward succeeds at a non-injection height with
\* median_size and current_block_size below 2^32, the reward is at most the
\* base reward of the same already_generated_coins, version and height.
C7_RewardCap ==
  (/\ RewardDone
   /\ NonInjection
   /\ rw.ret
   /\ BLess(rw.median_size, Pow2(32))
   /\ BLess(rw.current_block_size, Pow2(32)))
  => BLeq(rw.reward, RwBase)

\* a penalised block got a positive reward below the base reward
C7_Witness ==
  /\ RewardDone
  /\ NonInjection
  /\ rw.ret
  /\ BLess(RwMedian, rw.current_block_size)
  /\ BLess(rw.current_block_size, Pow2(32))
  /\ rw.reward # <<>>
  /\ BLess(rw.reward, RwBase)

\* C8: a successful call at a non-injection height returns exactly the base
\* reward if and only if current_block_size <= M; above M the reward is
\* strictly below the base reward and the assertions of the penalty branch
\* hold, for every base reward, 0 included (sizes within the asserted range).
C8_EqualityIffWithinMedian ==
  (/\ RewardDone
   /\ NonInjection
   /\ rw.ret
   /\ BLess(RwMedian, U32Max)
   /\ BLess(rw.current_block_size, U32Max))
  => /\ (rw.reward = RwBase) <=> BLeq(rw.current_block_size, RwMedian)
     /\ BLess(RwMedian, rw.current_block_size)
          => (BLess(rw.reward, RwBase) /\ ~rw.assert_failed)

\* the table of shifts by height, T_min the target in minutes
TableTarget(height) ==
  IF MAINNET_HARDFORK_V7_HEIGHT <= height /\ height < MAINNET_HARDFORK_V14_HEIGHT
    THEN 120 ELSE 60

TableShift(height) ==
  LET T_min == TableTarget(height) \div 60
  IN CASE height < MAINNET_HARDFORK_V7_HEIGHT -> 20 - (T_min - 1)
       [] height >= MAINNET_HARDFORK_V7_HEIGHT /\ height < MAINNET_HARDFORK_V10_HEIGHT -> 20 + (T_min - 1)
       [] height >= MAINNET_HARDFORK_V10_HEIGHT /\ height < MAINNET_HARDFORK_V16_HEIGHT -> 20 + (T_min - 2)
       [] height >= MAINNET_HARDFORK_V16_HEIGHT /\ height < MAINNET_HARDFORK_V17_HEIGHT -> 20 - (T_min - 1)
       [] height >= MAINNET_HARDFORK_V17_HEIGHT /\ height < MAINNET_HARDFORK_V18_HEIGHT -> 20 + (T_min + 1)
       [] height >= MAINNET_HARDFORK_V18_HEIGHT /\ height < MAINNET_HARDFORK_V19_HEIGHT -> 20 + (T_min + 9)
       [] height >= MAINNET_HARDFORK_V19_HEIGHT /\ height < MAINNET_HARDFORK_V20_HEIGHT -> 20 + (T_min + 6)
       [] height >= MAINNET_HARDFORK_V20_HEIGHT /\ height < MAINNET_HARDFORK_V21_HEIGHT -> 20 + (T_min + 9)
       [] height >= MAINNET_HARDFORK_V21_HEIGHT /\ height < MAINNET_HARDFORK_V22_HEIGHT -> 20 + (T_min + 7)
       [] height >= MAINNET_HARDFORK_V22_HEIGHT /\ height < MAINNET_HARDFORK_V23_HEIGHT -> 20 + (T_min + 9)
       [] height >= MAINNET_HARDFORK_V23_HEIGHT /\ height < MAINNET_HARDFORK_V23_B_HEIGHT -> 20 + (T_min + 8)
       [] height >= MAINNET_HARDFORK_V23_B_HEIGHT -> 20 - (T_min - 3)

\* the base reward that the shift es gives for the arguments of the call
BaseShifted(es) ==
  LET cs == COIN_SUPPLY(rw.version, rw.height, rw.supply)
  IN final_subsidy(
       IF rw.version < 2
         THEN BShr(Sub64(MONEY_SUPPLY_ETN, rw.already_generated_coins), es)
       ELSE round_floor(emission_formula(cs, es, rw.already_generated_coins,
                                         rw.version, rw.height),
                        rw.version),
       cs, rw.already_generated_coins)

WorkedCall ==
  /\ RewardDone
  /\ rw.median_size = FromInt(60000)
  /\ rw.current_block_size = FromInt(60000)
  /\ rw.already_generated_coins = <<>>
  /\ rw.version = 7
  /\ rw.height = 307100

\* C18: get_block_reward(median_size = 60000, current_block_size = 60000,
\* already_generated_coins = 0, version = 7, height = 307100) succeeds with
\* the reward (uint64_t)(MONEY_SUPPLY * 0.2476) >> 21 = 2479362: height
\* 307100 is above 307003 and the version is 7, so the fraction
\* 0.1888 + 2 * (0.023 + 2 * 0.0032) of the supply is shifted, and the
\* result is not rounded to a multiple of 10, which happens above version 7.
C18_WorkedCall ==
  WorkedCall =>
    /\ rw.ret
    /\ rw.reward = Dec(<<2, 479, 362>>)
    /\ rw.reward # BMulSmall(BDiv(rw.reward, <<10>>), 10)

\* the call was made and paid 2479362
C18_Witness ==
  /\ WorkedCall
  /\ rw.ret
  /\ rw.reward = Dec(<<2, 479, 362>>)

\* C18 as stated: the call pays (MONEY_SUPPLY - 0) >> (20 + 1) rounded down
\* to a multiple of 10.
C18_SubtractionRounded ==
  WorkedCall =>
    /\ rw.ret
    /\ rw.reward = BMulSmall(BDiv(BShr(MONEY_SUPPLY, 20 + 1), <<10>>), 10)

\* the penalty computed on unbounded integers
ExactPenalty(base, M, current_block_size) ==
  LET multiplicand == BMul(BSub(BMulSmall(M, 2), current_block_size),
                           current_block_size)
  IN [multiplicand |-> multiplicand,
      reward |-> BDiv(BDiv(BMul(base, multiplicand), M), M)]

\* C19: for M < current_block_size <= 2M, both below 2^32, the call
\* succeeds with floor(floor(base_reward * (2M - current_block_size) *
\* current_block_size / M) / M), nothing being lost on the way:
\* (2M - current_block_size) * current_block_size is below 2^64 and so is
\* the quotient, its high word being 0.
C19_PenaltyExact ==
  (/\ RewardDone
   /\ NonInjection
   /\ BLess(RwMedian, rw.current_block_size)
   /\ BLeq(rw.current_block_size, BMulSmall(RwMedian, 2))
   /\ BLess(RwMedian, Pow2(32))
   /\ BLess(rw.current_block_size, Pow2(32)))
  => LET exact == ExactPenalty(RwBase, RwMedian, rw.current_block_size)
     IN /\ rw.ret
        /\ BLess(exact.multiplicand, Pow2(64))
        /\ Hi64(exact.reward) = <<>>
        /\ rw.reward = exact.reward

\* a block of 2^32 - 1 bytes on a median of 2^32 - 2, the multiplicand
\* just below 2^64, got a reward that is not 0
C19_Witness ==
  /\ RewardDone
  /\ NonInjection
  /\ rw.median_size = BSub(U32Max, <<1>>)
  /\ rw.current_block_size = U32Max
  /\ rw.ret
  /\ rw.reward # <<>>
  /\ rw.reward = ExactPenalty(RwBase, RwMedian, rw.current_block_size).reward

\* SubtractionPath: the base reward comes from
\* (COIN_SUPPLY - already_generated_coins) >> emission_speed
RwSupply == COIN_SUPPLY(rw.version, rw.height, rw.supply)
SubtractionPath ==
  /\ NonInjection
  /\ ~(/\ rw.height > 307003
       /\ rw.version >= 7
       /\ rw.height < PEAK_COIN_EMISSION_HEIGHT + COIN_EMISSION_HEIGHT_INTERVAL)
  /\ rw.version < 2 => RwSupply = MONEY_SUPPLY_ETN

\* C10: tail emission: on the subtraction path, whenever
\* already_generated_coins >= COIN_SUPPLY (at the cap or above it) the base
\* reward, which a block within the median is paid, is
\* FINAL_SUBSIDY_PER_MINUTE = 10^8.
C10_TailEmission ==
  (/\ RewardDone
   /\ SubtractionPath
   /\ BLeq(RwSupply, rw.already_generated_coins)
   /\ BLeq(rw.current_block_size, RwMedian))
  => (rw.ret /\ rw.reward = Dec(<<100, 0, 0>>))

--------------------------------------------------------------------------
(* std::sort and epee::misc_utils::median on vectors of uint64_t *)

\* how many of the k smallest elements of the sorted a and b come from a,
\* elements of a going first among equals: the greatest i in lo..hi with
\* a[i] <= b[k - i + 1]
RECURSIVE Taken(_, _, _, _, _)
Taken(a, b, k, lo, hi) ==
  IF lo >= hi THEN lo
  ELSE LET mid == (lo + hi + 1) \div 2
       IN IF k - mid + 1 > Len(b) \/ BLeq(a[mid], b[k - mid + 1])
            THEN Taken(a, b, k, mid, hi)
          ELSE Taken(a, b, k, lo, mid - 1)

\* the k-th smallest, i of the k smallest coming from a
MergeAt(a, b, k, i) ==
  IF i = 0 THEN b[k]
  ELSE IF i = k THEN a[k]
  ELSE IF BLess(a[i], b[k - i]) THEN b[k - i] ELSE a[i]

Merge(a, b) ==
  Digits([k \in 1..(Len(a) + Len(b)) |->
           MergeAt(a, b, k, Taken(a, b, k, Max(0, k - Len(b)), Min(k, Len(a))))])

\* sort(v.begin(), v.end()): the elements in ascending order
RECURSIVE sort(_)
sort(v) ==
  IF Len(v) <= 1 THEN v
  ELSE Merge(sort(SubSeq(v, 1, Len(v) \div 2)),
             sort(SubSeq(v, Len(v) \div 2 + 1, Len(v))))

\* the median of a sorted vector of two elements or more
median_sorted(v) ==
  IF Len(v) % 2 = 1 THEN v[Len(v) \div 2 + 1]
  ELSE BDiv(Add64(v[Len(v) \div 2], v[Len(v) \div 2 + 1]), <<2>>)

\* epee::misc_utils::median
median(v) ==
  IF v = <<>> THEN <<>>
  ELSE IF Len(v) = 1 THEN v[1]
  ELSE median_sorted(sort(v))

\* v.resize(n)
resize(v, n) ==
  IF Len(v) >= n THEN SubSeq(v, 1, n)
  ELSE v \o [i \in 1..(n - Len(v)) |-> <<>>]

--------------------------------------------------------------------------
(* next_difficulty and next_difficulty_v2. Every variant gives ret, the
   value a build without assertions returns, and assert_failed, which
   tells that a build with assertions aborts in the call instead. *)

DIFFICULTY_WINDOW == 720
DIFFICULTY_CUT == 60
DIFFICULTY_WINDOW_V2 == 70
DIFFICULTY_BLOCKS_COUNT_V12 == DIFFICULTY_WINDOW_V2

\* v after: if (timestamps.size() > n) { v.resize(m); }
resized_if_longer(v, timestamps, n, m) ==
  IF Len(timestamps) > n THEN resize(v, m) ELSE v

cut_begin_full(length) ==
  IF length < DIFFICULTY_WINDOW THEN 0 ELSE DIFFICULTY_CUT

cut_begin(length) ==
  IF length <= DIFFICULTY_WINDOW - 2 * DIFFICULTY_CUT THEN 0
  ELSE (length - (DIFFICULTY_WINDOW - 2 * DIFFICULTY_CUT) + 1) \div 2

cut_end(length) ==
  IF length <= DIFFICULTY_WINDOW - 2 * DIFFICULTY_CUT THEN length
  ELSE cut_begin(length) + (DIFFICULTY_WINDOW - 2 * DIFFICULTY_CUT)

\* timestamps[cut_end - 1] - timestamps[cut_begin] of the sorted
\* timestamps, 0 replaced by 1
time_span_of(timestamps, length) ==
  IF timestamps[cut_end(length)] = timestamps[cut_begin(length) + 1] THEN <<1>>
  ELSE Sub64(timestamps[cut_end(length)], timestamps[cut_begin(length) + 1])

\* cumulative_difficulties[cut_end - 1] - cumulative_difficulties[cut_begin]
total_work_of(cumulative_difficulties, length) ==
  Sub64(cumulative_difficulties[cut_end(length)],
        cumulative_difficulties[cut_begin(length) + 1])

\* (low + time_span - 1) / time_span
rounded_up_quotient(low, time_span) ==
  BDiv(Add64(low, Sub64(time_span, <<1>>)), time_span)

next_difficulty_result(product, time_span, total_work) ==
  [ret |-> rounded_up_quotient(product.low, time_span),
   assert_failed |-> total_work = <<>>]

next_difficulty_cut(time_span, total_work, target_seconds, build) ==
  next_difficulty_result(mul(total_work, FromInt(target_seconds), build),
                         time_span, total_work)

next_difficulty_window_empty(timestamps, cumulative_difficulties, target_seconds, build) ==
  IF Len(timestamps) < 1
    THEN [ret |-> <<1>>,
          assert_failed |-> Len(timestamps) # Len(cumulative_difficulties)]
  ELSE next_difficulty_cut(time_span_of(sort(timestamps), Len(timestamps)),
                           total_work_of(cumulative_difficulties, Len(timestamps)),
                           target_seconds, build)

next_difficulty_window(timestamps, cumulative_difficulties, target_seconds, build) ==
  IF Len(timestamps) <= 1
    THEN [ret |-> <<1>>,
          assert_failed |-> Len(timestamps) # Len(cumulative_difficulties)]
  ELSE next_difficulty_cut(time_span_of(sort(timestamps), Len(timestamps)),
                           total_work_of(cumulative_difficulties, Len(timestamps)),
                           target_seconds, build)

next_difficulty(timestamps, cumulative_difficulties, target_seconds, build) ==
  next_difficulty_window(
    resized_if_longer(timestamps, timestamps, DIFFICULTY_WINDOW, DIFFICULTY_WINDOW),
    resized_if_longer(cumulative_difficulties, timestamps, DIFFICULTY_WINDOW,
                      DIFFICULTY_WINDOW),
    target_seconds, build)

next_difficulty_v2_result_high(product, time_span, total_work) ==
  [ret |-> IF product.high # <<>> THEN <<1>>
           ELSE rounded_up_quotient(product.low, time_span),
   assert_failed |-> total_work = <<>>]

next_difficulty_v2_result(product, time_span, total_work) ==
  [ret |-> IF \/ product.high # <<>>
              \/ BLess(Add64(product.low, Sub64(time_span, <<1>>)), product.low)
             THEN <<1>>
           ELSE rounded_up_quotient(product.low, time_span),
   assert_failed |-> total_work = <<>>]

next_difficulty_v2_cut(time_span, total_work, target_seconds, build) ==
  next_difficulty_v2_result(mul(total_work, FromInt(target_seconds), build),
                            time_span, total_work)

next_difficulty_v2_window(timestamps, cumulative_difficulties, target_seconds, build) ==
  IF Len(timestamps) <= 1
    THEN [ret |-> <<1>>,
          assert_failed |-> Len(timestamps) # Len(cumulative_difficulties)]
  ELSE next_difficulty_v2_cut(time_span_of(sort(timestamps), Len(timestamps)),
                              total_work_of(cumulative_difficulties, Len(timestamps)),
                              target_seconds, build)

next_difficulty_v2(timestamps, cumulative_difficulties, target_seconds, build) ==
  next_difficulty_v2_window(
    resized_if_longer(timestamps, timestamps, DIFFICULTY_WINDOW, DIFFICULTY_WINDOW),
    resized_if_longer(cumulative_difficulties, timestamps, DIFFICULTY_WINDOW,
                      DIFFICULTY_WINDOW),
    target_seconds, build)

--------------------------------------------------------------------------
(* next_difficulty_v3: the doubles are m * 2^e as above; LWMA also has a
   sign, and sum_inverse_D can be infinite *)

\* floor(num / den) * 2^e plus what the division leaves, rounded to 53 bits
DQuot(num, den, e) == RoundBits(BDiv(num, den), BMod(num, den) # <<>>, e)

\* a / b for b above 0: the quotient is taken with 55 bits or more
DDiv(a, b) ==
  DQuot(BShl(a.m, BitLen(b.m) + 55), b.m, a.e - b.e - (BitLen(b.m) + 55))

\* a - b for a >= b
DSub(a, b) ==
  LET e0 == Min(a.e, b.e)
  IN RoundBits(BSub(BShl(a.m, a.e - e0), BShl(b.m, b.e - e0)), FALSE, e0)

\* a < b
DLess(a, b) ==
  BLess(BShl(a.m, a.e - Min(a.e, b.e)), BShl(b.m, b.e - Min(a.e, b.e)))

Signed(neg, a) == [neg |-> neg, m |-> a.m, e |-> a.e]

\* a + b for doubles with a sign
SAdd(a, b) ==
  IF a.neg = b.neg THEN Signed(a.neg, DAdd(a, b))
  ELSE IF DLess(a, b) THEN Signed(b.neg, DSub(b, a))
  ELSE Signed(a.neg, DSub(a, b))

\* (int64_t) n / k for a double k above 0
SQuot(n, k) ==
  Signed(n < 0, DDiv(ToDouble(FromInt(IF n < 0 THEN -n ELSE n)), k))

\* (int64_t) boost::math::round(a) of a small a: to the nearest integer,
\* halves away from zero
round(a) ==
  IF a.neg THEN -((ToInt(DTrunc([m |-> a.m, e |-> a.e + 1])) + 1) \div 2)
  ELSE (ToInt(DTrunc([m |-> a.m, e |-> a.e + 1])) + 1) \div 2

Lit_0_998 == DLit(998, 1000)

\* std::min<int64_t>(T * 7, std::max<int64_t>(
\*   static_cast<int64_t>(later) - static_cast<int64_t>(earlier), -7 * T))
\* for timestamps below 2^63, which the casts leave as they are
solveTime(later, earlier, T) ==
  IF BLeq(earlier, later)
    THEN IF BLess(FromInt(7 * T), BSub(later, earlier)) THEN 7 * T
         ELSE ToInt(BSub(later, earlier))
  ELSE IF BLess(FromInt(7 * T), BSub(earlier, later)) THEN -7 * T
       ELSE -ToInt(BSub(earlier, later))

\* sum_inverse_D += 1 / static_cast<double>(difficulty)
inverse_added(sum, difficulty) ==
  IF difficulty = <<>> THEN [inf |-> TRUE, val |-> sum.val]
  ELSE [inf |-> sum.inf,
        val |-> DAdd(sum.val, DDiv(ToDouble(<<1>>), ToDouble(difficulty)))]

\* one turn of the loop over the N most recent blocks
lwma_step(st, i, timestamps, cumulative_difficulties, T, k) ==
  [LWMA |-> SAdd(st.LWMA,
                 SQuot(solveTime(timestamps[i + 1], timestamps[i], T) * i, k)),
   sum_inverse_D |-> inverse_added(st.sum_inverse_D,
                                   Sub64(cumulative_difficulties[i + 1],
                                         cumulative_difficulties[i]))]

\* the turns lo..hi in order; the run is cut in halves so that the
\* evaluation stays shallow
RECURSIVE lwma_loop(_, _, _, _, _, _, _)
lwma_loop(st, lo, hi, timestamps, cumulative_difficulties, T, k) ==
  IF lo > hi \/ ~Computed(st) THEN st
  ELSE IF lo = hi
    THEN lwma_step(st, lo, timestamps, cumulative_difficulties, T, k)
  ELSE lwma_loop(lwma_loop(st, lo, (lo + hi) \div 2, timestamps,
                           cumulative_difficulties, T, k),
                 (lo + hi) \div 2 + 1, hi, timestamps, cumulative_difficulties,
                 T, k)

\* Keep LWMA sane in case something unforeseen occurs.
sane(LWMA, T) ==
  IF round(LWMA) < T \div 20 THEN ToDouble(FromInt(T \div 20)) ELSE LWMA

\* harmonic_mean_D = N / sum_inverse_D * adjust
harmonic_mean_D(N, sum_inverse_D) ==
  IF sum_inverse_D.inf THEN [m |-> <<>>, e |-> 0]
  ELSE DMul(DDiv(ToDouble(FromInt(N)), sum_inverse_D.val), Lit_0_998)

\* nextDifficulty = harmonic_mean_D * T / LWMA
nextDifficulty(st, N, T) ==
  DDiv(DMul(harmonic_mean_D(N, st.sum_inverse_D), ToDouble(FromInt(T))),
       sane(st.LWMA, T))

\* static_cast<uint64_t>(x) of a double of 2^64 or more is undefined: the
\* conversion instruction gives 0, 2^63 or 2^64 - 1, by the machine
UndefinedCasts == {<<>>, Pow2(63), U64Max}

\* static_cast<uint64_t>(x): the values the conversion can give
cast_uint64(x) ==
  IF BitLen(x.m) + x.e > 64 THEN UndefinedCasts ELSE {DTrunc(x)}

clamped(next) ==
  IF BLess(next, FromInt(2000)) THEN Dec(<<75, 723, 142>>)
  ELSE IF BLess(Dec(<<120, 307, 799>>), next) THEN Dec(<<120, 307, 799>>)
  ELSE next

\* N for a window of n entries
lwma_N(n) == IF n < DIFFICULTY_WINDOW_V2 + 1 THEN n - 1 ELSE DIFFICULTY_WINDOW_V2

\* the results of the function, one for each value the conversion can give
next_difficulty_v3_window(timestamps, cumulative_difficulties, T) ==
  IF Len(timestamps) < 6
    THEN {[ret |-> <<1>>,
           assert_failed |-> Len(timestamps) # Len(cumulative_difficulties)]}
  ELSE {[ret |-> clamped(next),
         assert_failed |-> Len(timestamps) > DIFFICULTY_WINDOW_V2] :
          next \in cast_uint64(
            nextDifficulty(
              lwma_loop([LWMA |-> [neg |-> FALSE, m |-> <<>>, e |-> 0],
                         sum_inverse_D |->
                           [inf |-> FALSE, val |-> [m |-> <<>>, e |-> 0]]],
                        1, lwma_N(Len(timestamps)), timestamps,
                        cumulative_difficulties, T,
                        ToDouble(FromInt(
                          (lwma_N(Len(timestamps))
                           * (lwma_N(Len(timestamps)) + 1)) \div 2))),
              lwma_N(Len(timestamps)), T))}

next_difficulty_v3(timestamps, cumulative_difficulties, target_seconds) ==
  next_difficulty_v3_window(
    resized_if_longer(timestamps, timestamps, DIFFICULTY_WINDOW_V2,
                      DIFFICULTY_WINDOW_V2 + 1),
    resized_if_longer(cumulative_difficulties, timestamps, DIFFICULTY_WINDOW_V2,
                      DIFFICULTY_WINDOW_V2 + 1),
    target_seconds)

--------------------------------------------------------------------------
(* next_difficulty_v4 *)

\* the elements v[i] .. v[j - 1] of the source, which counts from 0; the
\* bounds are size_t, so a negative bound is far beyond j and gives nothing
diffs(v, i, j) == IF i < 0 THEN <<>> ELSE SubSeq(v, i + 1, j)

first_diffs(cumulative_difficulties) ==
  diffs(cumulative_difficulties, 0, DIFFICULTY_BLOCKS_COUNT_V12 - 30)

mid_diffs(cumulative_difficulties) ==
  diffs(cumulative_difficulties, DIFFICULTY_BLOCKS_COUNT_V12 - 30,
        DIFFICULTY_BLOCKS_COUNT_V12 - 10)

\* DIFFICULTY_BLOCKS_COUNT_V12*-10 is DIFFICULTY_WINDOW_V2*-10, -700
last_diffs(cumulative_difficulties) ==
  diffs(cumulative_difficulties, DIFFICULTY_BLOCKS_COUNT_V12 * (-10),
        DIFFICULTY_BLOCKS_COUNT_V12)

\* the test on the three medians that shortens the window to 25
trending(median_first, median_mid, median_last) ==
  \/ /\ BLess(BDiv(Mul64(median_mid, <<6>>), <<5>>), median_first)
     /\ BLess(BDiv(Mul64(median_last, <<10>>), <<9>>), median_mid)
  \/ /\ BLess(BDiv(Mul64(median_first, <<6>>), <<5>>), median_mid)
     /\ BLess(BDiv(Mul64(median_mid, <<10>>), <<9>>), median_last)

shortened(v, cumulative_difficulties) ==
  IF /\ Len(cumulative_difficulties) >= DIFFICULTY_BLOCKS_COUNT_V12 - 1
     /\ trending(median(first_diffs(cumulative_difficulties)),
                 median(mid_diffs(cumulative_difficulties)),
                 median(last_diffs(cumulative_difficulties)))
    THEN resize(v, 25)
  ELSE v

\* timespan of turn i: max_timestamp - previous_max, 0 replaced by 1 and
\* cut at 11 * target_seconds
timespan_of(timestamp, previous_max, target_seconds) ==
  IF BLeq(timestamp, previous_max) THEN 1
  ELSE IF BLess(FromInt(11 * target_seconds), BSub(timestamp, previous_max))
    THEN 11 * target_seconds
  ELSE ToInt(BSub(timestamp, previous_max))

\* i >= (length - 7) in size_t: below 7 the difference wraps to a number
\* no i reaches
in_last_blocks(i, length) == IF length < 7 THEN FALSE ELSE i >= length - 7

\* one turn of the loop, timespan already taken
timespan_counted(st, i, timespan, max_timestamp, length) ==
  [previous_max |-> max_timestamp,
   weighted_timespans |-> st.weighted_timespans + i * timespan,
   nbShortTsLastNBlocks |->
     IF in_last_blocks(i, length) /\ timespan < 30
       THEN st.nbShortTsLastNBlocks + 1 ELSE st.nbShortTsLastNBlocks,
   lastTimeWasShort |->
     IF in_last_blocks(i, length) THEN timespan < 30 ELSE st.lastTimeWasShort,
   lastShortTimeInARaw |->
     IF in_last_blocks(i, length)
       THEN IF timespan < 30 THEN st.lastShortTimeInARaw + 1 ELSE 0
     ELSE st.lastShortTimeInARaw,
   nbLongTsLastNBlocks |->
     IF in_last_blocks(i, length) /\ timespan > 100
       THEN st.nbLongTsLastNBlocks + 1 ELSE st.nbLongTsLastNBlocks]

timespan_step(st, i, timestamps, length, target_seconds) ==
  timespan_counted(st, i,
                   timespan_of(timestamps[i + 1], st.previous_max, target_seconds),
                   IF BLess(st.previous_max, timestamps[i + 1])
                     THEN timestamps[i + 1] ELSE st.previous_max,
                   length)

\* the turns lo..hi in order, the run cut in halves as above
RECURSIVE timespan_loop(_, _, _, _, _, _)
timespan_loop(st, lo, hi, timestamps, length, target_seconds) ==
  IF lo > hi \/ ~Computed(st) THEN st
  ELSE IF lo = hi THEN timespan_step(st, lo, timestamps, length, target_seconds)
  ELSE timespan_loop(timespan_loop(st, lo, (lo + hi) \div 2, timestamps, length,
                                   target_seconds),
                     (lo + hi) \div 2 + 1, hi, timestamps, length, target_seconds)

\* weighted_timespans * 7/8 if the short times were all in a row
in_a_raw(weighted_timespans, st) ==
  IF st.lastShortTimeInARaw = st.nbShortTsLastNBlocks
    THEN (weighted_timespans * 7) \div 8
  ELSE weighted_timespans

adjusted_always(st) ==
  IF st.nbShortTsLastNBlocks >= 7 THEN (st.weighted_timespans * 1) \div 2
  ELSE IF st.nbShortTsLastNBlocks = 6
    THEN in_a_raw((st.weighted_timespans * 3) \div 5, st)
  ELSE IF st.nbShortTsLastNBlocks = 5
    THEN in_a_raw((st.weighted_timespans * 4) \div 5, st)
  ELSE IF st.nbShortTsLastNBlocks = 4
    THEN in_a_raw((st.weighted_timespans * 9) \div 10, st)
  ELSE IF st.nbShortTsLastNBlocks = 3
    THEN in_a_raw((st.weighted_timespans * 11) \div 12, st)
  ELSE st.weighted_timespans

\* adjust faster if many blocks fount too fast
adjusted(st) ==
  IF ~st.lastTimeWasShort THEN st.weighted_timespans
  ELSE IF st.nbShortTsLastNBlocks >= 7 THEN (st.weighted_timespans * 1) \div 2
  ELSE IF st.nbShortTsLastNBlocks = 6
    THEN in_a_raw((st.weighted_timespans * 3) \div 5, st)
  ELSE IF st.nbShortTsLastNBlocks = 5
    THEN in_a_raw((st.weighted_timespans * 4) \div 5, st)
  ELSE IF st.nbShortTsLastNBlocks = 4
    THEN in_a_raw((st.weighted_timespans * 9) \div 10, st)
  ELSE IF st.nbShortTsLastNBlocks = 3
    THEN in_a_raw((st.weighted_timespans * 11) \div 12, st)
  ELSE st.weighted_timespans

\* target = 99 * (((length + 1) / 2) * target_seconds) / 100
target_of(length, target_seconds) ==
  (99 * (((length + 1) \div 2) * target_seconds)) \div 100

floored_none(weighted_timespans, length, target_seconds) == weighted_timespans

\* weighted_timespans, not below minimum_timespan
floored(weighted_timespans, length, target_seconds) ==
  Max(weighted_timespans, (target_seconds * length) \div 2)

next_difficulty_v4_result(product, weighted_timespans, total_work) ==
  [ret |-> IF product.high # <<>> THEN <<>>
           ELSE BDiv(product.low, FromInt(weighted_timespans)),
   assert_failed |-> total_work = <<>>]

next_difficulty_v4_work(total_work, weighted_timespans, length, target_seconds, build) ==
  next_difficulty_v4_result(
    mul(total_work, FromInt(target_of(length, target_seconds)), build),
    weighted_timespans, total_work)

\* the counters after the loop over a window of two timestamps or more
timespans_of(timestamps, target_seconds) ==
  timespan_loop([previous_max |-> timestamps[1],
                 weighted_timespans |-> 0,
                 nbShortTsLastNBlocks |-> 0,
                 lastTimeWasShort |-> FALSE,
                 lastShortTimeInARaw |-> 0,
                 nbLongTsLastNBlocks |-> 0],
                1, Len(timestamps) - 1, timestamps, Len(timestamps),
                target_seconds)

\* weighted_timespans, the divisor of the result
weighted_timespans_of(timestamps, target_seconds) ==
  floored(adjusted(timespans_of(timestamps, target_seconds)),
          Len(timestamps), target_seconds)

next_difficulty_v4_window(timestamps, cumulative_difficulties, target_seconds, build) ==
  IF Len(timestamps) <= 1
    THEN [ret |-> <<1>>,
          assert_failed |-> Len(timestamps) # Len(cumulative_difficulties)]
  ELSE next_difficulty_v4_work(
         Sub64(cumulative_difficulties[Len(cumulative_difficulties)],
               cumulative_difficulties[1]),
         weighted_timespans_of(timestamps, target_seconds),
         Len(timestamps), target_seconds, build)

next_difficulty_v4_sized(timestamps, cumulative_difficulties, target_seconds, build) ==
  next_difficulty_v4_window(shortened(timestamps, cumulative_difficulties),
                            shortened(cumulative_difficulties,
                                      cumulative_difficulties),
                            target_seconds, build)

next_difficulty_v4_sixty(timestamps, cumulative_difficulties, target_seconds, build) ==
  next_difficulty_v4_sized(
    resized_if_longer(timestamps, timestamps, 60, 60),
    resized_if_longer(cumulative_difficulties, timestamps, 60, 60),
    target_seconds, build)

next_difficulty_v4(timestamps, cumulative_difficulties, target_seconds, build) ==
  next_difficulty_v4_sized(
    resized_if_longer(timestamps, timestamps, DIFFICULTY_BLOCKS_COUNT_V12,
                      DIFFICULTY_BLOCKS_COUNT_V12),
    resized_if_longer(cumulative_difficulties, timestamps,
                      DIFFICULTY_BLOCKS_COUNT_V12, DIFFICULTY_BLOCKS_COUNT_V12),
    target_seconds, build)

--------------------------------------------------------------------------
(* The difficulty functions, called on windows of a chain *)

\* the timestamp of the oldest block of a window, 1_500_000_000
FirstTimestamp == Dec(<<1, 500, 0, 0>>)

\* n timestamps, oldest first, step seconds apart; the miners' clocks
\* either agree with the order of the blocks ("up") or run against it
timestamps_of(n, step, order) ==
  Digits([i \in 1..n |->
           BAdd(FirstTimestamp,
                FromInt(step * (IF order = "up" THEN i ELSE n - i)))])

\* n cumulative difficulties of blocks of difficulty D each
cumulative_difficulties_of(n, D) ==
  Digits([i \in 1..n |-> BMul(D, FromInt(i))])

\* n timestamps, oldest first: the first k blocks step seconds apart, the
\* later ones twice as far
timestamps_slowing(n, k, step) ==
  Digits([i \in 1..n |->
           BAdd(FirstTimestamp,
                FromInt(step * (IF i <= k THEN i ELSE 2 * i - k)))])

\* the timestamps of blocks found solve_times[i] seconds after one another
RECURSIVE timestamps_after(_, _)
timestamps_after(first, solve_times) ==
  IF solve_times = <<>> THEN <<first>>
  ELSE <<first>> \o timestamps_after(BAdd(first, FromInt(solve_times[1])),
                                     Tail(solve_times))

\* the last seven solve times of a window of ten blocks: 29 seconds is
\* short, 30 is not
RecentSolveTimes ==
  { <<29, 29, 29, 30, 30, 30, 30>>, <<30, 30, 30, 30, 29, 29, 29>>,
    <<29, 30, 30, 30, 30, 29, 29>>, <<30, 30, 30, 29, 29, 29, 29>>,
    <<29, 30, 30, 30, 29, 29, 29>>, <<30, 30, 29, 29, 29, 29, 29>>,
    <<29, 30, 30, 29, 29, 29, 29>>, <<30, 29, 29, 29, 29, 29, 29>>,
    <<29, 30, 29, 29, 29, 29, 29>>, <<29, 29, 29, 29, 29, 29, 29>>,
    <<29, 29, 29, 29, 29, 29, 30>>, <<30, 30, 30, 30, 30, 29, 29>> }

ShortLengths == {0, 1, 2, 3, 6, 7}
LongLengths == {69, 71}
FullLengths == {600, 601, 650, 720, 721}
\* lengths, and the block after which the chain slows down
SlowingLengths == {<<71, 65>>, <<721, 400>>}
SolveTimes == {0, 1, 120, 10000}
Orders == {"up", "down"}
BlockDifficulties == {<<>>, <<1>>, Dec(<<100, 0, 0>>), Pow2(57)}
\* the work of one block that, times 60, is 16 short of 2^64
WrappingDifficulty == Dec(<<307, 445, 734, 561, 825, 860>>)
ShortBlockDifficulties == BlockDifficulties \cup {Pow2(60), WrappingDifficulty}
FullBlockDifficulties == {Dec(<<100, 0, 0>>)}
TargetSeconds == {DIFFICULTY_TARGET_V1, DIFFICULTY_TARGET_V2}

Windows ==
  { [timestamps |-> timestamps_of(n, step, order),
     cumulative_difficulties |-> cumulative_difficulties_of(n, D)] :
      n \in ShortLengths, step \in SolveTimes, order \in Orders,
      D \in ShortBlockDifficulties }
  \cup
  { [timestamps |-> timestamps_of(n, step, order),
     cumulative_difficulties |-> cumulative_difficulties_of(n, D)] :
      n \in LongLengths, step \in SolveTimes, order \in Orders,
      D \in BlockDifficulties }
  \cup
  { [timestamps |-> timestamps_of(n, step, "up"),
     cumulative_difficulties |-> cumulative_difficulties_of(n, D)] :
      n \in FullLengths, step \in {120}, D \in FullBlockDifficulties }
  \cup
  { [timestamps |-> timestamps_slowing(nk[1], nk[2], 120),
     cumulative_difficulties |-> cumulative_difficulties_of(nk[1], D)] :
      nk \in SlowingLengths, D \in FullBlockDifficulties }
  \cup
  { [timestamps |-> timestamps_after(FirstTimestamp, <<120, 120>> \o recent),
     cumulative_difficulties |-> cumulative_difficulties_of(10, D)] :
      recent \in RecentSolveTimes, D \in FullBlockDifficulties }

InitDiff ==
  /\ \E w \in Windows, target_seconds \in TargetSeconds :
       df = [pc |-> "call", fn |-> "none", timestamps |-> w.timestamps,
             cumulative_difficulties |-> w.cumulative_difficulties,
             target_seconds |-> target_seconds,
             ret |-> <<>>, assert_failed |-> FALSE]
  /\ m_points = NoPoints
  /\ first_hash = NoPoints
  /\ cp = IdleCp
  /\ pow = IdlePow
  /\ rw = IdleRw

Returned(fn, r) ==
  /\ df' = [df EXCEPT !.pc = "done", !.fn = fn, !.ret = r.ret,
                      !.assert_failed = r.assert_failed]
  /\ UNCHANGED <<m_points, first_hash, cp, pow, rw>>

next_difficulty_call ==
  /\ df.pc = "call"
  /\ \E build \in Builds :
       Returned("next_difficulty",
                next_difficulty(df.timestamps, df.cumulative_difficulties,
                                df.target_seconds, build))

next_difficulty_v2_call ==
  /\ df.pc = "call"
  /\ \E build \in Builds :
       Returned("next_difficulty_v2",
                next_difficulty_v2(df.timestamps, df.cumulative_difficulties,
                                   df.target_seconds, build))

next_difficulty_v3_call ==
  /\ df.pc = "call"
  /\ \E r \in next_difficulty_v3(df.timestamps, df.cumulative_difficulties,
                                  df.target_seconds) :
       Returned("next_difficulty_v3", r)

next_difficulty_v4_call ==
  /\ df.pc = "call"
  /\ \E build \in Builds :
       Returned("next_difficulty_v4",
                next_difficulty_v4(df.timestamps, df.cumulative_difficulties,
                                   df.target_seconds, build))

NextDiff ==
  \/ next_difficulty_call
  \/ next_difficulty_v2_call
  \/ next_difficulty_v3_call
  \/ next_difficulty_v4_call

SpecDiff == InitDiff /\ [][NextDiff]_vars

DiffDone == df.pc = "done"

\* C9: each of next_difficulty, next_difficulty_v2, next_difficulty_v3 and
\* next_difficulty_v4 returns 1 or more on every window that is not empty
\* (sequences of equal length, cumulative difficulties that do not
\* decrease, target_seconds 60 or 120).
C9_DifficultyLowerBound ==
  (DiffDone /\ Len(df.timestamps) >= 1) => BLeq(<<1>>, df.ret)

\* the windows the functions work on after their resizes
ClassicTimestamps ==
  resized_if_longer(df.timestamps, df.timestamps, DIFFICULTY_WINDOW,
                    DIFFICULTY_WINDOW)
ClassicDifficulties ==
  resized_if_longer(df.cumulative_difficulties, df.timestamps,
                    DIFFICULTY_WINDOW, DIFFICULTY_WINDOW)
V4Difficulties ==
  shortened(resized_if_longer(df.cumulative_difficulties, df.timestamps,
                              DIFFICULTY_BLOCKS_COUNT_V12,
                              DIFFICULTY_BLOCKS_COUNT_V12),
            resized_if_longer(df.cumulative_difficulties, df.timestamps,
                              DIFFICULTY_BLOCKS_COUNT_V12,
                              DIFFICULTY_BLOCKS_COUNT_V12))
V4Timestamps ==
  shortened(resized_if_longer(df.timestamps, df.timestamps,
                              DIFFICULTY_BLOCKS_COUNT_V12,
                              DIFFICULTY_BLOCKS_COUNT_V12),
            resized_if_longer(df.cumulative_difficulties, df.timestamps,
                              DIFFICULTY_BLOCKS_COUNT_V12,
                              DIFFICULTY_BLOCKS_COUNT_V12))
Classic == df.fn \in {"next_difficulty", "next_difficulty_v2"}

\* the time span of sorted timestamps is 1 where the compared ones are
\* equal, and never 0
TimeSpanCoerced(timestamps) ==
  /\ time_span_of(timestamps, Len(timestamps)) # <<>>
  /\ timestamps[cut_end(Len(timestamps))] = timestamps[cut_begin(Len(timestamps)) + 1]
       => time_span_of(timestamps, Len(timestamps)) = <<1>>

\* the timespan of neighbours is 1 where they are equal and never 0, and
\* so is the divisor
TimespansCoerced(timestamps, target_seconds) ==
  /\ \A i \in 1..(Len(timestamps) - 1) :
       /\ timespan_of(timestamps[i + 1], timestamps[i], target_seconds) >= 1
       /\ timestamps[i + 1] = timestamps[i] =>
            timespan_of(timestamps[i + 1], timestamps[i], target_seconds) = 1
  /\ weighted_timespans_of(timestamps, target_seconds) >= 1

\* C13: on windows of no entry or one, each of the four functions returns
\* exactly 1; on longer windows the time span next_difficulty and
\* next_difficulty_v2 divide by is 1 where the compared timestamps are
\* equal and never 0, and in next_difficulty_v4 the timespan of two equal
\* timestamps is 1 and weighted_timespans, the divisor, is never 0.
C13_ShortWindows ==
  DiffDone =>
    /\ Len(df.timestamps) <= 1 => df.ret = <<1>>
    /\ (Classic /\ Len(df.timestamps) >= 2) =>
         TimeSpanCoerced(sort(ClassicTimestamps))
    /\ (df.fn = "next_difficulty_v4" /\ Len(df.timestamps) >= 2) =>
         TimespansCoerced(V4Timestamps, df.target_seconds)

\* next_difficulty returned on a window of three equal timestamps whose
\* cumulative difficulties grow
C13_Witness ==
  /\ DiffDone
  /\ df.fn = "next_difficulty"
  /\ Len(df.timestamps) = 3
  /\ df.timestamps[1] = df.timestamps[3]
  /\ df.cumulative_difficulties[1] # df.cumulative_difficulties[3]
  /\ df.ret # <<>>

\* total_work * target_seconds and low + time_span - 1 on unbounded integers
\* are both below 2^64
FitsIn64(time_span, total_work, target_seconds) ==
  /\ BLess(BMul(total_work, FromInt(target_seconds)), Pow2(64))
  /\ BLess(BAdd(BMul(total_work, FromInt(target_seconds)),
                BSub(time_span, <<1>>)), Pow2(64))

\* what next_difficulty_v2 returns, from what next_difficulty returns
SafeVariantOf(fits, timestamps, cumulative_difficulties, target_seconds) ==
  IF fits
    THEN \A build \in Builds :
           df.ret = next_difficulty(timestamps, cumulative_difficulties,
                                    target_seconds, build).ret
  ELSE df.ret = <<1>>

\* C20: next_difficulty_v2 returns what next_difficulty returns on the same
\* arguments whenever total_work * target_seconds fits in 64 bits and
\* low + time_span - 1 does not wrap, and returns 1 otherwise.
C20_SafeVariant ==
  (DiffDone /\ df.fn = "next_difficulty_v2") =>
    SafeVariantOf(
      \/ Len(df.timestamps) <= 1
      \/ FitsIn64(time_span_of(sort(ClassicTimestamps), Len(ClassicTimestamps)),
                  total_work_of(ClassicDifficulties, Len(ClassicTimestamps)),
                  df.target_seconds),
      df.timestamps, df.cumulative_difficulties, df.target_seconds)

\* two blocks 120 seconds apart whose work times 60 is 2^64 - 16: the
\* product fits, the sum wraps, and next_difficulty_v2 returned 1
C20_Witness ==
  /\ DiffDone
  /\ df.fn = "next_difficulty_v2"
  /\ Len(df.timestamps) = 2
  /\ df.target_seconds = 60
  /\ BSub(df.cumulative_difficulties[2], df.cumulative_difficulties[1])
       = WrappingDifficulty
  /\ BSub(df.timestamps[2], df.timestamps[1]) = FromInt(120)
  /\ df.ret = <<1>>

\* the last n entries of v
last_entries(v, n) == IF Len(v) > n THEN SubSeq(v, Len(v) - n + 1, Len(v)) ELSE v

\* C21: given more than DIFFICULTY_WINDOW entries, oldest first,
\* next_difficulty returns what it returns for the last 720 entries of both
\* sequences.
C21_LastWindow ==
  (DiffDone /\ df.fn = "next_difficulty" /\ Len(df.timestamps) > DIFFICULTY_WINDOW) =>
    \A build \in Builds :
      df.ret = next_difficulty(last_entries(df.timestamps, 720),
                               last_entries(df.cumulative_difficulties, 720),
                               df.target_seconds, build).ret

\* the rounded-up quotient of the work between the entries begin + 1 and
\* end and the time between them, on unbounded integers
QuotientBetween(timestamps, cumulative_difficulties, begin, end, target_seconds) ==
  LET time_span == IF timestamps[end] = timestamps[begin + 1] THEN <<1>>
                   ELSE BSub(timestamps[end], timestamps[begin + 1])
      work == BSub(cumulative_difficulties[end], cumulative_difficulties[begin + 1])
  IN BDiv(BAdd(BMul(work, FromInt(target_seconds)), BSub(time_span, <<1>>)),
          time_span)

\* the cut of a window of length entries leaves begin + 1 .. end
MiddleCut(length, begin, end) ==
  /\ begin + 2 <= end
  /\ end <= length
  /\ length <= 600 => (begin = 0 /\ end = length)
  /\ length > 600 =>
       /\ end - begin = 600
       /\ begin - (length - end) \in {0, 1}
  /\ length = 720 => (begin = 60 /\ length - end = 60)

\* C22: next_difficulty and next_difficulty_v2 use the entire range of the
\* sorted timestamps for 2 <= length <= 600, and for 600 < length <= 720
\* the 600 entries in the middle, cutting (length - 600) / 2 entries from
\* the end and the rest from the beginning, 60 and 60 at 720; always
\* cut_begin + 2 <= cut_end <= length, and the difficulty returned is the
\* one of the entries cut_begin and cut_end - 1.
C22_MiddleCut ==
  (DiffDone /\ Classic /\ Len(df.timestamps) >= 2) =>
    /\ MiddleCut(Len(ClassicTimestamps), cut_begin(Len(ClassicTimestamps)),
                 cut_end(Len(ClassicTimestamps)))
    /\ Len(df.timestamps) >= 600 =>
         df.ret = QuotientBetween(sort(ClassicTimestamps), ClassicDifficulties,
                                  (Max(Len(ClassicTimestamps), 599) - 599) \div 2,
                                  (Max(Len(ClassicTimestamps), 599) - 599) \div 2
                                    + 600,
                                  df.target_seconds)

\* a window of 650 entries, of which the 600 in the middle were used
C22_Witness ==
  /\ DiffDone
  /\ df.fn = "next_difficulty_v2"
  /\ Len(df.timestamps) = 650
  /\ cut_begin(650) = 25
  /\ cut_end(650) = 625
  /\ df.target_seconds = 60
  /\ df.ret = Dec(<<50, 0, 0>>)

\* C22 as stated: 60 entries are cut from each end of a window of 720, and
\* every shorter window is used whole.
C22_CutOnlyWhenFull ==
  (DiffDone /\ Classic /\ Len(df.timestamps) >= 2) =>
    /\ Len(ClassicTimestamps) = 720 =>
         /\ cut_begin(Len(ClassicTimestamps)) = 60
         /\ cut_end(Len(ClassicTimestamps)) = 660
    /\ Len(ClassicTimestamps) < 720 =>
         /\ cut_begin(Len(ClassicTimestamps)) = 0
         /\ cut_end(Len(ClassicTimestamps)) = Len(ClassicTimestamps)
    /\ cut_begin(Len(ClassicTimestamps)) + 2 <= cut_end(Len(ClassicTimestamps))
    /\ cut_end(Len(ClassicTimestamps)) <= Len(ClassicTimestamps)

\* C23: on every window of 6 entries or more next_difficulty_v3 returns a
\* value from 75_723_142 to 120_307_799.
C23_ClampedRange ==
  (DiffDone /\ df.fn = "next_difficulty_v3" /\ Len(df.timestamps) >= 6) =>
    /\ BLeq(Dec(<<75, 723, 142>>), df.ret)
    /\ BLeq(df.ret, Dec(<<120, 307, 799>>))

\* C27: assert(n <= DIFFICULTY_WINDOW_V2) holds in next_difficulty_v3 for
\* every input, those of more than 70 entries included.
C27_WindowAssertion ==
  (DiffDone /\ df.fn = "next_difficulty_v3") => ~df.assert_failed

\* what next_difficulty_v4 returns when its sequences are first cut to
\* their first n entries, or to their last n
V4OfFirst(n) ==
  { next_difficulty_v4_sized(resized_if_longer(df.timestamps, df.timestamps, n, n),
                             resized_if_longer(df.cumulative_difficulties,
                                               df.timestamps, n, n),
                             df.target_seconds, build).ret : build \in Builds }
V4OfLast(n) ==
  { next_difficulty_v4_sized(last_entries(df.timestamps, n),
                             last_entries(df.cumulative_difficulties, n),
                             df.target_seconds, build).ret : build \in Builds }

V4Product(cumulative_difficulties, N, target_seconds) ==
  BMul(BSub(cumulative_difficulties[N], cumulative_difficulties[1]),
       FromInt((99 * (((N + 1) \div 2) * target_seconds)) \div 100))

\* the result for the divisor and the product: the quotient, or 0 when
\* the product has more than 64 bits
V4Quotient(weighted_timespans, product, N, target_seconds) ==
  /\ 2 * weighted_timespans >= target_seconds * N - 1
  /\ df.ret = IF BLess(product, Pow2(64))
                THEN BDiv(product, FromInt(weighted_timespans))
              ELSE <<>>
  /\ df.ret = <<>> <=>
       \/ ~BLess(product, Pow2(64))
       \/ BLess(product, FromInt(weighted_timespans))

Later(a, b) == IF BLess(a, b) THEN b ELSE a

RECURSIVE GreatestUpTo(_, _)
GreatestUpTo(timestamps, i) ==
  IF i = 1 THEN timestamps[1]
  ELSE Later(GreatestUpTo(timestamps, i - 1), timestamps[i])

\* the effective timespans of a window: interval i runs from the greatest
\* timestamp up to block i to the greatest up to block i + 1, and counts
\* for 1 up to 11 * target_seconds
EffectiveTimespans(timestamps, target_seconds) ==
  Written([i \in 1..(Len(timestamps) - 1) |->
    LET span == BSub(GreatestUpTo(timestamps, i + 1), GreatestUpTo(timestamps, i))
    IN IF span = <<>> THEN 1
       ELSE IF BLess(FromInt(11 * target_seconds), span) THEN 11 * target_seconds
       ELSE ToInt(span)])

RECURSIVE WeightedSum(_, _)
WeightedSum(spans, i) == IF i = 0 THEN 0 ELSE i * spans[i] + WeightedSum(spans, i - 1)

\* the last seven intervals of a window of seven entries or more, which
\* are six for seven entries
LastSeven(spans) ==
  IF Len(spans) + 1 < 7 THEN {}
  ELSE { i \in 1..Len(spans) : i >= Len(spans) + 1 - 7 }

ShortAmong(spans) == Cardinality({ i \in LastSeven(spans) : spans[i] < 30 })

\* the short intervals in a row at the end of the window
ShortRun(spans) ==
  IF LastSeven(spans) = {} THEN 0
  ELSE CHOOSE r \in 0..7 :
         /\ r <= Cardinality(LastSeven(spans))
         /\ \A i \in LastSeven(spans) : i > Len(spans) - r => spans[i] < 30
         /\ \/ r = Cardinality(LastSeven(spans))
            \/ spans[Len(spans) - r] >= 30

\* w scaled by num / den, and by 7/8 where the short intervals are one run
Scaled(w, num, den, nb_short, run) ==
  IF run = nb_short THEN (((w * num) \div den) * 7) \div 8 ELSE (w * num) \div den

\* the scaling of the code: none unless the last interval is short, and no
\* 7/8 on top of 1/2
ScaledWhenLastShort(w, nb_short, run) ==
  IF run = 0 \/ nb_short < 3 THEN w
  ELSE IF nb_short >= 7 THEN w \div 2
  ELSE IF nb_short = 6 THEN Scaled(w, 3, 5, nb_short, run)
  ELSE IF nb_short = 5 THEN Scaled(w, 4, 5, nb_short, run)
  ELSE IF nb_short = 4 THEN Scaled(w, 9, 10, nb_short, run)
  ELSE Scaled(w, 11, 12, nb_short, run)

\* the scaling as stated
ScaledAsStated(w, nb_short, run) ==
  IF nb_short < 3 THEN w
  ELSE IF nb_short >= 7 THEN Scaled(w, 1, 2, nb_short, run)
  ELSE IF nb_short = 6 THEN Scaled(w, 3, 5, nb_short, run)
  ELSE IF nb_short = 5 THEN Scaled(w, 4, 5, nb_short, run)
  ELSE IF nb_short = 4 THEN Scaled(w, 9, 10, nb_short, run)
  ELSE Scaled(w, 11, 12, nb_short, run)

V4Spans == EffectiveTimespans(V4Timestamps, df.target_seconds)

\* the divisor of next_difficulty_v4 is the scaled sum, or the minimum
DivisorIs(scaled, timestamps, target_seconds) ==
  weighted_timespans_of(timestamps, target_seconds)
    = Max(scaled, (target_seconds * Len(timestamps)) \div 2)

DivisorWhenLastShort(spans, timestamps, target_seconds) ==
  DivisorIs(ScaledWhenLastShort(WeightedSum(spans, Len(spans)),
                                ShortAmong(spans), ShortRun(spans)),
            timestamps, target_seconds)

DivisorAsStated(spans, timestamps, target_seconds) ==
  DivisorIs(ScaledAsStated(WeightedSum(spans, Len(spans)),
                           ShortAmong(spans), ShortRun(spans)),
            timestamps, target_seconds)

GuardChainHeights == {0, 10, 400000}
GuardBlockHeights == {0, 1, 11, 200000}

\* for a fixed registry and blockchain_height, what is allowed at a block
\* height is allowed at every greater one
AllowedUpwards(points) ==
  \A blockchain_height \in GuardChainHeights, b1 \in GuardBlockHeights, b2 \in GuardBlockHeights :
    (b1 <= b2 /\ is_alternative_block_allowed(points, blockchain_height, b1))
      => is_alternative_block_allowed(points, blockchain_height, b2)

\* what was refused on the registry before is refused on the registry after
RefusedStaysRefused(before, after) ==
  \A blockchain_height \in GuardChainHeights, block_height \in GuardBlockHeights :
    ~is_alternative_block_allowed(before, blockchain_height, block_height)
      => ~is_alternative_block_allowed(after, blockchain_height, block_height)

\* C28: no step that changes the registry (add_checkpoint, the defaults, the
\* loads from json and dns) makes is_alternative_block_allowed true for a
\* pair (blockchain_height, block_height) it was false for, and on the
\* registry after the step the block heights allowed at a blockchain_height
\* are closed upwards.
C28_GuardMonotone ==
  [][m_points' # m_points =>
       /\ RefusedStaysRefused(m_points, m_points')
       /\ AllowedUpwards(m_points')]_vars

\* height 0 was pinned below the pinned height 10: block 1 of an alternative
\* chain stays refused at chain height 400000, block 200000 stays allowed
C28_Witness ==
  /\ cp.op = "add_checkpoint"
  /\ cp.count = 0
  /\ cp.ret = TRUE
  /\ cp.height = 0
  /\ 10 \in DOMAIN m_points
  /\ ~is_alternative_block_allowed(m_points, 400000, 1)
  /\ is_alternative_block_allowed(m_points, 400000, 200000)

\* C29: get_max_height, called by itself or by load_checkpoints_from_json
\* on a file that exists, reads an entry of the registry: no call ends in
\* the read of max_element's end(), and the height it yields is pinned and
\* is, for get_max_height itself, the greatest pinned height.
C29_MaxHeightDefined ==
  /\ cp.op # "crashed"
  /\ cp.op = "get_max_height" =>
       /\ DOMAIN m_points # {}
       /\ cp.ret = SetMax(DOMAIN m_points)
  /\ (cp.op = "load_checkpoints_from_json" /\ "prev_max_height" \in DOMAIN cp) =>
       cp.prev_max_height \in DOMAIN m_points

\* the cumulative difficulties of the last 10 positions of a window of
\* DIFFICULTY_BLOCKS_COUNT_V12 entries
LastTen(cumulative_difficulties) ==
  diffs(cumulative_difficulties, DIFFICULTY_BLOCKS_COUNT_V12 - 10,
        DIFFICULTY_BLOCKS_COUNT_V12)

\* the window shrunk to 25 entries when the medians of the first 40, the
\* next 20 and the last 10 cumulative difficulties are trending
ShortenedByLastTen(v, cumulative_difficulties) ==
  IF trending(median(first_diffs(cumulative_difficulties)),
              median(mid_diffs(cumulative_difficulties)),
              median(LastTen(cumulative_difficulties)))
    THEN resize(v, 25)
  ELSE v

SampledByLastTen(timestamps, cumulative_difficulties) ==
  /\ last_diffs(cumulative_difficulties) = LastTen(cumulative_difficulties)
  /\ df.ret \in
       { next_difficulty_v4_window(
           ShortenedByLastTen(timestamps, cumulative_difficulties),
           ShortenedByLastTen(cumulative_difficulties, cumulative_difficulties),
           df.target_seconds, build).ret : build \in Builds }

\* C30: on a window of DIFFICULTY_BLOCKS_COUNT_V12 entries or more,
\* next_difficulty_v4 takes as its third sample the cumulative difficulties
\* at the positions 60..69 of the window, and returns the difficulty of the
\* window shrunk to 25 entries exactly when the medians of the three
\* samples are trending by 6/5 and 10/9.
C30_LastTenSample ==
  (DiffDone /\ df.fn = "next_difficulty_v4"
     /\ Len(df.timestamps) >= DIFFICULTY_BLOCKS_COUNT_V12) =>
    SampledByLastTen(
      resized_if_longer(df.timestamps, df.timestamps,
                        DIFFICULTY_BLOCKS_COUNT_V12, DIFFICULTY_BLOCKS_COUNT_V12),
      resized_if_longer(df.cumulative_difficulties, df.timestamps,
                        DIFFICULTY_BLOCKS_COUNT_V12, DIFFICULTY_BLOCKS_COUNT_V12))

====
